---- MODULE Spec2Model ----
(***************************************************************************)
(* Verification model of the route optimizer: depot admission windows,     *)
(* the hard / relaxed VRPTW solves and the solve pipeline of the web app   *)
(* and the CLI.                                                            *)
(*                                                                         *)
(* Times are minutes since 00:00 of the reference day, as in the code.     *)
(***************************************************************************)
EXTENDS Integers, Sequences, FiniteSets, TLC

VARIABLES
    pc,         \* position of the run
    depot,      \* DepotConfig: the three raw (von, bis) pairs
    dw,         \* outcome of depot_union_windows
    dw2,        \* outcome of sorting and merging dw.wins once more
    endDom,     \* values left in a route-end clock after restrict_intvar_to_union
    frontend,   \* "app" (app.py) or "cli" (main.py)
    inst,       \* solve input: SolveConfig, node windows, service minutes, matrix
    sol,        \* the assignment the routing solver returned last
    result,     \* what the last solve call returned
    hard,       \* how the hard solve ended
    relaxed,    \* how the relaxed solve ended
    ui,         \* what the run has reported: messages, is_relaxed, export call
    post,       \* post-processing of routes: route totals and export rows
    mx          \* matrix building: coordinates, requests sent, assembled matrices

vars == <<pc, depot, dw, dw2, endDom, frontend, inst, sol, result, hard, relaxed, ui, post, mx>>
pipeVars == <<frontend, inst, sol, result, hard, relaxed, ui, post, mx>>

-----------------------------------------------------------------------------
(* Bounds of the model *)

\* the grid of raw depot times is 11:00 and 11:30 .. 11:30 + MaxGapMin
MaxGapMin == 2
\* customer nodes per solve input: 1 .. MaxCustomers
MaxCustomers == 2
\* configured num_vehicles: 0 .. MaxVehicles
MaxVehicles == 2

(* Program constants *)

\* horizon = 24 * 60
Horizon == 1440

-----------------------------------------------------------------------------
(* Raw time values, io_excel.parse_to_datetime / minutes_from_day_start     *)

\* A raw cell: absent (None / NaN), text dateutil cannot parse, a "HH:MM"
\* text (combined with the reference day) or a full date-time d days after
\* the reference day.
RawNone == [k |-> "none", d |-> 0, h |-> 0, mi |-> 0]
RawBad  == [k |-> "bad",  d |-> 0, h |-> 0, mi |-> 0]
HM(hh, mm) == [k |-> "hhmm", d |-> 0, h |-> hh, mi |-> mm]
DT(dd, hh, mm) == [k |-> "dt", d |-> dd, h |-> hh, mi |-> mm]

Max(a, b) == IF a >= b THEN a ELSE b
Min(a, b) == IF a <= b THEN a ELSE b

\* parse_to_datetime followed by minutes_from_day_start: "HH:MM" is put on
\* the reference day, a full date-time keeps its own day.
MinutesFromDayStart(raw) == raw.d * 1440 + raw.h * 60 + raw.mi

\* Mutant: the check "if e < s: raise" left out
ParseOptionalWindow_NoEndCheck(von, bis) ==
    IF von.k = "none" \/ bis.k = "none"
    THEN [tag |-> "none", w |-> <<0, 0>>]
    ELSE IF von.k = "bad" \/ bis.k = "bad"
    THEN [tag |-> "parse_error", w |-> <<0, 0>>]
    ELSE [tag |-> "win", w |-> <<MinutesFromDayStart(von), MinutesFromDayStart(bis)>>]

\* parse_optional_window: None when a side is absent, an error when a side
\* cannot be parsed or the window ends before it starts, else (s, e).
ParseOptionalWindow(von, bis) ==
    IF von.k = "none" \/ bis.k = "none"
    THEN [tag |-> "none", w |-> <<0, 0>>]
    ELSE IF von.k = "bad" \/ bis.k = "bad"
    THEN [tag |-> "parse_error", w |-> <<0, 0>>]
    ELSE LET s == MinutesFromDayStart(von)
             e == MinutesFromDayStart(bis)
         IN  IF e < s
             THEN [tag |-> "end_before_start", w |-> <<s, e>>]
             ELSE [tag |-> "win", w |-> <<s, e>>]

-----------------------------------------------------------------------------
(* depot_union_windows *)

\* Python's order on (s, e) tuples
TupleLE(a, b) == a[1] < b[1] \/ (a[1] = b[1] /\ a[2] <= b[2])

RECURSIVE InsertSorted(_, _)
InsertSorted(w, seq) ==
    IF seq = <<>> THEN <<w>>
    ELSE IF TupleLE(w, Head(seq)) THEN <<w>> \o seq
    ELSE <<Head(seq)>> \o InsertSorted(w, Tail(seq))

\* wins.sort()
RECURSIVE SortWins(_)
SortWins(seq) ==
    IF seq = <<>> THEN <<>> ELSE InsertSorted(Head(seq), SortWins(Tail(seq)))

\* Mutants of the loop body of the merge
MergeStep_OverlapOnly(merged, wins, i) ==
    LET w == wins[i] IN
    IF merged = <<>> THEN <<w>>
    ELSE LET p == merged[Len(merged)] IN
         IF w[1] < p[2]
         THEN [merged EXCEPT ![Len(merged)] = <<p[1], Max(p[2], w[2])>>]
         ELSE Append(merged, w)

MergeStep_PrevRaw(merged, wins, i) ==
    LET w == wins[i] IN
    IF merged = <<>> THEN <<w>>
    ELSE LET p == merged[Len(merged)] IN
         IF w[1] <= wins[i - 1][2] + 1
         THEN [merged EXCEPT ![Len(merged)] = <<p[1], Max(p[2], w[2])>>]
         ELSE Append(merged, w)

\* One pass of the loop "for s, e in wins": wins[i] is joined into the last
\* merged interval when s <= pe + 1, else appended.
MergeStep(merged, wins, i) ==
    LET w == wins[i] IN
    IF merged = <<>> THEN <<w>>
    ELSE LET p == merged[Len(merged)] IN
         IF w[1] <= p[2] + 1
         THEN [merged EXCEPT ![Len(merged)] = <<p[1], Max(p[2], w[2])>>]
         ELSE Append(merged, w)

RECURSIVE MergeLoop(_, _, _)
MergeLoop(merged, wins, i) ==
    IF i > Len(wins) THEN merged
    ELSE MergeLoop(MergeStep(merged, wins, i), wins, i + 1)

\* wins.sort() and the merge loop
SortAndMerge(wins) == MergeLoop(<<>>, SortWins(wins), 1)

\* The loop over the three (von, bis) pairs: the first pair that raises ends
\* the call; a parsed window is collected, an absent one skipped.
RECURSIVE CollectWindows(_, _, _)
CollectWindows(dep, i, wins) ==
    IF i > Len(dep) THEN [err |-> "", wins |-> wins]
    ELSE LET r == ParseOptionalWindow(dep[i].von, dep[i].bis) IN
         IF r.tag \in {"parse_error", "end_before_start"}
         THEN [err |-> r.tag, wins |-> <<>>]
         ELSE IF r.tag = "win"
         THEN CollectWindows(dep, i + 1, Append(wins, r.w))
         ELSE CollectWindows(dep, i + 1, wins)

\* depot_union_windows: the merged list, or the ValueError it ends with
DepotUnionWindows(dep) ==
    LET c == CollectWindows(dep, 1, <<>>) IN
    IF c.err # "" THEN [ok |-> FALSE, err |-> c.err, wins |-> <<>>]
    ELSE IF c.wins = <<>> THEN [ok |-> FALSE, err |-> "no_window", wins |-> <<>>]
    ELSE [ok |-> TRUE, err |-> "", wins |-> SortAndMerge(c.wins)]

-----------------------------------------------------------------------------
(* restrict_intvar_to_union on an integer variable's domain *)

\* IntVar.SetRange / IntVar.RemoveInterval on a domain kept as a set
SetRange(dom, lo, hi) == {t \in dom : lo <= t /\ t <= hi}
RemoveInterval(dom, lo, hi) == {t \in dom : ~(lo <= t /\ t <= hi)}

RECURSIVE RemoveGaps(_, _, _)
RemoveGaps(dom, windows, i) ==
    IF i >= Len(windows) THEN dom
    ELSE LET gap_start == windows[i][2] + 1
             gap_end   == windows[i + 1][1] - 1
         IN  RemoveGaps(IF gap_start <= gap_end
                        THEN RemoveInterval(dom, gap_start, gap_end)
                        ELSE dom,
                        windows, i + 1)

RestrictIntvarToUnion_RangeOnly(dom, windows) ==
    SetRange(dom, windows[1][1], windows[Len(windows)][2])

RestrictIntvarToUnion(dom, windows) ==
    RemoveGaps(SetRange(dom, windows[1][1], windows[Len(windows)][2]), windows, 1)

\* The "Time" dimension: every cumul variable starts as 0 .. horizon
TimeCumulDomain == 0 .. Horizon

-----------------------------------------------------------------------------
(* Depot configurations *)

GridTimes == {HM(11, 0)} \cup {HM(11, 30 + g) : g \in 0 .. MaxGapMin}
GridCells == {RawNone, RawBad} \cup GridTimes
GridPairs == [von : GridCells, bis : GridCells]

Pair(a, b) == [von |-> a, bis |-> b]
Absent == Pair(RawNone, RawNone)

\* main.py / app.py defaults: 11:00-11:30, 14:00-14:30, 17:30-18:00
DefaultDepot ==
    << Pair(HM(11, 0), HM(11, 30)), Pair(HM(14, 0), HM(14, 30)),
       Pair(HM(17, 30), HM(18, 0)) >>

\* Further configurations: unsorted, with full date-times off the reference
\* day, and one past the horizon
ExtraDepots ==
    { DefaultDepot,
      << Pair(HM(17, 30), HM(18, 0)), Pair(HM(11, 0), HM(11, 30)),
         Pair(HM(14, 0), HM(14, 30)) >>,
      << Pair(DT(0, 23, 50), DT(1, 0, 20)), Absent, Pair(HM(6, 0), HM(6, 5)) >>,
      << Pair(DT(-1, 23, 50), DT(0, 0, 10)), Pair(HM(0, 12), HM(0, 20)), Absent >>,
      << Pair(DT(1, 1, 0), DT(1, 2, 0)), Absent, Absent >> }

DepotInputs == [1 .. 3 -> GridPairs] \cup ExtraDepots

NoResult == [ok |-> FALSE, err |-> "not_run", wins |-> <<>>]
NoInst == [num_vehicles |-> 0, max_wait_min |-> 0, max_route_duration_min |-> 0,
           tws |-> <<>>, svc |-> <<>>, tm |-> <<>>, dm |-> <<>>]
NoSol == [route |-> <<>>, time |-> <<>>]
NoSolveResult == [routes |-> <<>>, depot_windows |-> <<>>]
NoUi == [msgs |-> {}, is_relaxed |-> FALSE, export_called |-> FALSE]
NoPost == [totals |-> <<>>, rows |-> <<>>, probs |-> <<>>]
NoMx == [coords |-> <<>>, prov |-> "none", unique_coords |-> <<>>, node_to_uid |-> <<>>,
         uid_time |-> <<>>, uid_dist |-> <<>>, pos |-> 0, done |-> {}, requests |-> <<>>, elements |-> <<>>,
         time_matrix_min |-> <<>>, dist_matrix_m |-> <<>>]

-----------------------------------------------------------------------------
(* Specification SpecDepot: depot_union_windows and restrict_intvar_to_union
   applied to every depot configuration *)

InitDepot ==
    /\ pc = "depot_cfg"
    /\ depot \in DepotInputs
    /\ dw = NoResult
    /\ dw2 = NoResult
    /\ endDom = TimeCumulDomain
    /\ frontend = "none"
    /\ inst = NoInst
    /\ sol = NoSol
    /\ result = NoSolveResult
    /\ hard = "not_run"
    /\ relaxed = "not_run"
    /\ ui = NoUi
    /\ post = NoPost
    /\ mx = NoMx

\* depot_union_windows(depot, solve_cfg)
CallDepotUnionWindows ==
    /\ pc = "depot_cfg"
    /\ dw' = DepotUnionWindows(depot)
    /\ pc' = IF dw'.ok THEN "depot_union" ELSE "depot_error"
    /\ UNCHANGED <<depot, dw2, endDom>>
    /\ UNCHANGED pipeVars

\* restrict_intvar_to_union(time_dim.CumulVar(routing.End(v)), depot_windows)
CallRestrictIntvarToUnion ==
    /\ pc = "depot_union"
    /\ endDom' = RestrictIntvarToUnion(endDom, dw.wins)
    /\ pc' = "depot_restricted"
    /\ UNCHANGED <<depot, dw, dw2>>
    /\ UNCHANGED pipeVars

\* the sort and merge of depot_union_windows applied to its own output
CallMergeAgain ==
    /\ pc = "depot_restricted"
    /\ dw2' = [ok |-> TRUE, err |-> "", wins |-> SortAndMerge(dw.wins)]
    /\ pc' = "depot_remerged"
    /\ UNCHANGED <<depot, dw, endDom>>
    /\ UNCHANGED pipeVars

NextDepot == CallDepotUnionWindows \/ CallRestrictIntvarToUnion \/ CallMergeAgain

SpecDepot == InitDepot /\ [][NextDepot]_vars

-----------------------------------------------------------------------------
(* Claims about the depot admission domain, checked under SpecDepot *)

\* Raw pair i of the configuration, read off the raw cells: present when
\* neither side is absent, valid when both sides are times with end >= start
SlotPresent(i) == depot[i].von.k # "none" /\ depot[i].bis.k # "none"
SlotUnparseable(i) ==
    SlotPresent(i) /\ (depot[i].von.k = "bad" \/ depot[i].bis.k = "bad")
SlotStart(i) == depot[i].von.d * 1440 + depot[i].von.h * 60 + depot[i].von.mi
SlotEnd(i) == depot[i].bis.d * 1440 + depot[i].bis.h * 60 + depot[i].bis.mi
SlotInverted(i) ==
    SlotPresent(i) /\ ~SlotUnparseable(i) /\ SlotEnd(i) < SlotStart(i)
SlotValid(i) ==
    SlotPresent(i) /\ ~SlotUnparseable(i) /\ SlotEnd(i) >= SlotStart(i)
ValidSlots == {i \in 1 .. 3 : SlotValid(i)}
\* the valid raw windows in configuration order
RawWins == CollectWindows(depot, 1, <<>>).wins
\* the minutes of the day covered by at least one valid raw window
CoveredBy(ws) ==
    {t \in 0 .. Horizon : \E i \in 1 .. Len(ws) : ws[i][1] <= t /\ t <= ws[i][2]}
CoveredMinutes ==
    CoveredBy([i \in 1 .. 3 |->
                  IF SlotValid(i) THEN <<SlotStart(i), SlotEnd(i)>> ELSE <<1, 0>>])

\* C4: after restrict_intvar_to_union with the output of depot_union_windows
\* the route-end clock may take exactly the minutes of [0, 1440] that some
\* configured raw depot window covers; with the default windows 691 is
\* excluded and 690 and 840 are allowed.
Thm_C4_EndDomainIsUnion ==
    pc \in {"depot_restricted", "depot_remerged"} =>
        /\ endDom = CoveredMinutes
        /\ depot = DefaultDepot =>
               691 \notin endDom /\ 690 \in endDom /\ 840 \in endDom

Wit_C4_DefaultGap ==
    /\ pc = "depot_restricted"
    /\ depot = DefaultDepot
    /\ 691 \notin endDom /\ 839 \notin endDom
    /\ 690 \in endDom /\ 840 \in endDom

\* C5: for one to three valid raw windows in any order the returned list is
\* non-empty, sorted ascending by start and pairwise non-overlapping: each
\* interval ends strictly before the next one starts.
Thm_C5_SortedDisjoint ==
    (pc # "depot_cfg" /\ dw.ok) =>
        /\ Len(dw.wins) >= 1
        /\ \A i \in 1 .. Len(dw.wins) : dw.wins[i][1] <= dw.wins[i][2]
        /\ \A i \in 1 .. Len(dw.wins) - 1 :
               /\ dw.wins[i][1] < dw.wins[i + 1][1]
               /\ dw.wins[i][2] < dw.wins[i + 1][1]

\* raw windows given out of order and overlapping, two intervals returned
Wit_C5_UnorderedOverlap ==
    /\ pc = "depot_union"
    /\ ValidSlots = {1, 2, 3}
    /\ SlotStart(1) > SlotStart(2)
    /\ SlotStart(3) <= SlotEnd(2) /\ SlotEnd(3) > SlotEnd(2)
    /\ Len(dw.wins) = 2

\* the valid raw windows, sorted
SortedRaw == SortWins(RawWins)
RECURSIVE MaxEndOf(_, _, _)
MaxEndOf(S, i, j) == IF i = j THEN S[i][2] ELSE Max(S[j][2], MaxEndOf(S, i, j - 1))
\* sorted window i is joined when it starts at most 1 minute after the end
\* of what precedes it
Joined(S, i) == i > 1 /\ S[i][1] <= MaxEndOf(S, 1, i - 1) + 1
GroupStarts(S) == {i \in 1 .. Len(S) : ~Joined(S, i)}
GroupEnd(S, g) ==
    CHOOSE j \in g .. Len(S) :
        /\ \A m \in g + 1 .. j : Joined(S, m)
        /\ j = Len(S) \/ ~Joined(S, j + 1)
Rank(S, g) == Cardinality({x \in GroupStarts(S) : x <= g})

\* C6: the raw windows are sorted by start and a window is joined into the
\* previous merged interval iff it starts at most 1 minute after that
\* interval's end; windows further apart stay separate. The default windows
\* give exactly [660,690], [840,870], [1050,1080].
Thm_C6_MergeIffGapAtMostOne ==
    (pc # "depot_cfg" /\ dw.ok) =>
        /\ Len(dw.wins) = Cardinality(GroupStarts(SortedRaw))
        /\ \A g \in GroupStarts(SortedRaw) :
               dw.wins[Rank(SortedRaw, g)] =
                   << SortedRaw[g][1],
                      MaxEndOf(SortedRaw, g, GroupEnd(SortedRaw, g)) >>
        /\ depot = DefaultDepot =>
               dw.wins = << <<660, 690>>, <<840, 870>>, <<1050, 1080>> >>

\* a window 1 minute after the previous end is joined while one 30 minutes
\* after stays apart
Wit_C6_GapOneJoined ==
    /\ pc = "depot_union"
    /\ RawWins = << <<690, 690>>, <<691, 692>>, <<660, 660>> >>
    /\ dw.wins = << <<660, 660>>, <<690, 692>> >>

\* C7: merging is idempotent: sorting and merging the output of
\* depot_union_windows again returns the same list.
Thm_C7_MergeIdempotent ==
    pc = "depot_remerged" => dw2.wins = dw.wins

Wit_C7_Remerged ==
    /\ pc = "depot_remerged"
    /\ Len(RawWins) = 3
    /\ Len(dw.wins) = 2
    /\ dw2.wins = dw.wins

NoneValid == ValidSlots = {}
SomeInverted == \E i \in 1 .. 3 : SlotInverted(i)
SomeUnparseable == \E i \in 1 .. 3 : SlotUnparseable(i)

\* C8 as stated: the call ends in an error exactly when no raw window is
\* valid or some present raw window has end < start.
Orig_C8_ErrorCases ==
    pc # "depot_cfg" => (~dw.ok <=> (NoneValid \/ SomeInverted))

\* C8 amended: the call ends in an error and returns no domain exactly when
\* no raw window is valid, some present raw window has end < start, or some
\* present raw window cannot be parsed; in every other case it returns a
\* domain.
Thm_C8_ErrorCases ==
    pc # "depot_cfg" =>
        /\ ~dw.ok <=> (NoneValid \/ SomeInverted \/ SomeUnparseable)
        /\ ~dw.ok => dw.wins = <<>>
        /\ dw.ok => dw.wins # <<>>

\* a window ending before its start beside a valid one
Wit_C8_InvertedBesideValid ==
    /\ pc = "depot_error"
    /\ dw.err = "end_before_start"
    /\ ValidSlots # {}

-----------------------------------------------------------------------------
(* The routing model built by solve_vrptw and
   solve_vrptw_relaxed_soft_timewindows *)

\* n_locations = len(node_time_windows); node 0 is the depot
NLocations == Len(inst.tws)
Customers == 1 .. NLocations - 1
\* num_vehicles = max(1, solve_cfg.num_vehicles)
NumVehicles == Max(1, inst.num_vehicles)

TimeWindow(node) == inst.tws[node + 1]
Travel(from_node, to_node) == inst.tm[from_node + 1][to_node + 1]
ServiceMin(node) == inst.svc[node + 1]

\* RoutingIndexManager(n_locations, num_vehicles, 0): index 0 is the start of
\* vehicle 0, a customer's index is its node, the other starts and then the
\* ends follow.
StartIndex(v) == IF v = 0 THEN 0 ELSE NLocations + v - 1
EndIndex(v) == NLocations + NumVehicles - 1 + v
IsEnd(idx) == idx >= NLocations + NumVehicles - 1
IsStart(idx) == idx = 0 \/ (idx >= NLocations /\ ~IsEnd(idx))
IndexToNode(idx) == IF idx < NLocations THEN idx ELSE 0
NodeToIndex(node) == node
VehicleOfStart(idx) == IF idx = 0 THEN 0 ELSE idx - NLocations + 1
VehicleOfEnd(idx) == idx - (NLocations + NumVehicles - 1)

\* time_cb on nodes: travel plus the service at the destination, none at the depot
Transit(from_node, to_node) ==
    Travel(from_node, to_node) + (IF to_node # 0 THEN ServiceMin(to_node) ELSE 0)
TimeCb(from_index, to_index) == Transit(IndexToNode(from_index), IndexToNode(to_index))

Range(q) == {q[i] : i \in DOMAIN q}

\* Position of customer c in an assignment: vehicle (from 1) and place
VehicleOf(a, c) == CHOOSE v \in DOMAIN a.route : c \in Range(a.route[v])
PlaceOf(a, c) ==
    CHOOSE k \in DOMAIN a.route[VehicleOf(a, c)] : a.route[VehicleOf(a, c)][k] = c

\* solution.Value(routing.NextVar(idx))
NextVar(a, idx) ==
    IF IsStart(idx)
    THEN LET v == VehicleOfStart(idx) IN
         IF a.route[v + 1] = <<>> THEN EndIndex(v) ELSE NodeToIndex(a.route[v + 1][1])
    ELSE LET v == VehicleOf(a, idx)
             k == PlaceOf(a, idx)
         IN  IF k = Len(a.route[v]) THEN EndIndex(v - 1)
             ELSE NodeToIndex(a.route[v][k + 1])

\* solution.Value(time_dim.CumulVar(idx))
CumulVar(a, idx) ==
    IF IsEnd(idx)
    THEN LET v == VehicleOfEnd(idx) IN a.time[v + 1][Len(a.time[v + 1])]
    ELSE IF IsStart(idx) THEN a.time[VehicleOfStart(idx) + 1][1]
    ELSE a.time[VehicleOf(a, idx)][PlaceOf(a, idx) + 1]

\* Mutant: the customer windows left soft in the hard solve
CustomerCumulRange_AlwaysSoft(node, mode) == <<0, Horizon>>

\* Range of a customer's clock: SetRange(tw[0], tw[1]) in the hard solve,
\* SetRange(0, horizon) in the relaxed one, inside the dimension's 0 .. horizon
CustomerCumulRange(node, mode) ==
    IF mode = "hard"
    THEN <<Max(0, TimeWindow(node)[1]), Min(Horizon, TimeWindow(node)[2])>>
    ELSE <<0, Horizon>>

\* the nodes of a vehicle's path: depot, its customers, depot
Path(rt) == <<0>> \o rt \o <<0>>

\* whether the clock at place j < Len(path) of a path may be t
CumulOk(path, j, t, mode) ==
    IF j = 1 THEN 0 <= t /\ t <= Horizon
    ELSE LET rg == CustomerCumulRange(path[j], mode) IN rg[1] <= t /\ t <= rg[2]

\* Mutant: the slack of the "Time" dimension one minute above max_wait_min
RECURSIVE TimesUpTo_WiderSlack(_, _, _, _)
TimesUpTo_WiderSlack(path, j, t, mode) ==
    IF j = 1 THEN {<<t>>}
    ELSE LET tr == Transit(path[j - 1], path[j])
             preds == {u \in (t - tr - inst.max_wait_min - 1) .. (t - tr) :
                          CumulOk(path, j - 1, u, mode)}
         IN  UNION {{Append(q, t) : q \in TimesUpTo_WiderSlack(path, j - 1, u, mode)} :
                    u \in preds}

\* The clocks <<t_1, .., t_j>> of the first j places of a path that end in
\* t_j = t: each step adds the transit and a slack of 0 .. max_wait_min.
RECURSIVE TimesUpTo(_, _, _, _)
TimesUpTo(path, j, t, mode) ==
    IF j = 1 THEN {<<t>>}
    ELSE LET tr == Transit(path[j - 1], path[j])
             preds == {u \in (t - tr - inst.max_wait_min) .. (t - tr) :
                          CumulOk(path, j - 1, u, mode)}
         IN  UNION {{Append(q, t) : q \in TimesUpTo(path, j - 1, u, mode)} : u \in preds}

\* all clock sequences of a route whose end lies in the end domain ed
RouteTimes(rt, ed, mode) ==
    UNION {TimesUpTo(Path(rt), Len(rt) + 2, te, mode) : te \in ed}

\* An unused vehicle goes from start to end; its clocks are never read, the
\* earliest pair stands for them.
IdleTimes(ed, mode) ==
    LET all == RouteTimes(<<>>, ed, mode) IN
    IF all = {} THEN {}
    ELSE {CHOOSE q \in all :
            \A q2 \in all : q[2] < q2[2] \/ (q[2] = q2[2] /\ q[1] <= q2[1])}

RECURSIVE TransitSum(_, _)
TransitSum(path, j) ==
    IF j = 1 THEN 0 ELSE TransitSum(path, j - 1) + Transit(path[j - 1], path[j])

\* "Duration" dimension: present when max_route_duration_min > 0, starts at
\* 0, has slack of its own and is capped at max_route_duration_min
DurationOk(rt) ==
    inst.max_route_duration_min > 0 =>
        TransitSum(Path(rt), Len(rt) + 2) <= inst.max_route_duration_min

RECURSIVE SeqsOver(_, _)
SeqsOver(S, k) ==
    IF k = 0 THEN {<<>>}
    ELSE UNION {{Append(q, x) : x \in S \ Range(q)} : q \in SeqsOver(S, k - 1)}
OrderedSubsets(S) == UNION {SeqsOver(S, k) : k \in 0 .. Cardinality(S)}

\* The routing model has no disjunction: every customer node is on exactly
\* one vehicle's path, once.
Routings ==
    {r \in [1 .. NumVehicles -> OrderedSubsets(Customers)] :
        \A c \in Customers :
            Cardinality({v \in 1 .. NumVehicles : c \in Range(r[v])}) = 1}

RECURSIVE TimeProducts(_, _, _, _)
TimeProducts(r, v, ed, mode) ==
    IF v = 0 THEN {<<>>}
    ELSE LET mine == IF r[v] = <<>> THEN IdleTimes(ed, mode)
                     ELSE RouteTimes(r[v], ed, mode)
         IN  UNION {{Append(q, m) : m \in mine} : q \in TimeProducts(r, v - 1, ed, mode)}

\* every assignment routing.SolveWithParameters may return for the model
Solutions(mode, ed) ==
    UNION {{[route |-> r, time |-> ts] : ts \in TimeProducts(r, NumVehicles, ed, mode)} :
           r \in {x \in Routings : \A v \in 1 .. NumVehicles : DurationOk(x[v])}}

-----------------------------------------------------------------------------
(* Extraction of the routes from the solver's assignment *)

\* Mutant: the wait measured up to the end of the window
PseudoWaitFromTimewindow_ToWindowEnd(node, arrival_min) ==
    IF node = 0 THEN 0
    ELSE IF TimeWindow(node) = <<>> THEN 0
    ELSE Max(0, TimeWindow(node)[2] - arrival_min)

\* _pseudo_wait_from_timewindow
PseudoWaitFromTimewindow(node, arrival_min) ==
    IF node = 0 THEN 0
    ELSE IF TimeWindow(node) = <<>> THEN 0
    ELSE Max(0, TimeWindow(node)[1] - arrival_min)

\* "while not routing.IsEnd(idx)" and the end node appended after it
RECURSIVE WalkRoute(_, _, _)
WalkRoute(a, idx, route) ==
    IF IsEnd(idx)
    THEN Append(route, <<IndexToNode(idx), CumulVar(a, idx), 0>>)
    ELSE LET node == IndexToNode(idx)
             tmin == CumulVar(a, idx)
         IN  WalkRoute(a, NextVar(a, idx),
                       Append(route, <<node, tmin, PseudoWaitFromTimewindow(node, tmin)>>))

\* Mutant: the start clock reported by the solver is kept
RepairDeparture_KeepStart(route) == route

\* Mutant: the departure computed without the service time
RepairDeparture_NoService(route) ==
    IF Len(route) >= 2
    THEN LET first_node == route[2][1]
             first_tmin == route[2][2]
             departure == Max(0, first_tmin - Travel(0, first_node))
         IN  [route EXCEPT ![1] = <<route[1][1], departure, route[1][3]>>]
    ELSE route

\* Fix of the depot start time: first customer's arrival minus travel and service
RepairDeparture(route) ==
    IF Len(route) >= 2
    THEN LET first_node == route[2][1]
             first_tmin == route[2][2]
             departure == Max(0, first_tmin - Travel(0, first_node) - ServiceMin(first_node))
         IN  [route EXCEPT ![1] = <<route[1][1], departure, route[1][3]>>]
    ELSE route

\* Mutant: unused vehicles are not skipped
RECURSIVE ExtractRoutes_KeepIdle(_, _, _)
ExtractRoutes_KeepIdle(a, v, routes) ==
    IF v >= NumVehicles THEN routes
    ELSE ExtractRoutes_KeepIdle(a, v + 1,
             Append(routes, RepairDeparture(WalkRoute(a, StartIndex(v), <<>>))))

\* Mutant: "for v in range(num_vehicles - 1)"
RECURSIVE ExtractRoutes_SkipLast(_, _, _)
ExtractRoutes_SkipLast(a, v, routes) ==
    IF v >= NumVehicles - 1 THEN routes
    ELSE IF IsEnd(NextVar(a, StartIndex(v)))
    THEN ExtractRoutes_SkipLast(a, v + 1, routes)
    ELSE ExtractRoutes_SkipLast(a, v + 1,
             Append(routes, RepairDeparture(WalkRoute(a, StartIndex(v), <<>>))))

\* "for v in range(num_vehicles)": a vehicle whose start leads to its end is
\* skipped, the route of every other one is appended.
RECURSIVE ExtractRoutes(_, _, _)
ExtractRoutes(a, v, routes) ==
    IF v >= NumVehicles THEN routes
    ELSE IF IsEnd(NextVar(a, StartIndex(v)))
    THEN ExtractRoutes(a, v + 1, routes)
    ELSE ExtractRoutes(a, v + 1,
             Append(routes, RepairDeparture(WalkRoute(a, StartIndex(v), <<>>))))

\* solve_vrptw's return value for the assignment a
HardResult(a, dws) ==
    [routes |-> ExtractRoutes(a, 0, <<>>), depot_windows |-> dws]

\* one entry of the relaxed solve's "violations", against the original window
Violation(a, node) ==
    LET tmin == CumulVar(a, NodeToIndex(node))
        s == TimeWindow(node)[1]
        e == TimeWindow(node)[2]
    IN  [node |-> node, time_min |-> tmin, early_min |-> Max(0, s - tmin),
         late_min |-> Max(0, tmin - e), tw |-> <<s, e>>]

\* Mutant: only early arrivals are recorded
RECURSIVE CollectViolations_EarlyOnly(_, _, _)
CollectViolations_EarlyOnly(a, node, violations) ==
    IF node >= NLocations THEN violations
    ELSE LET x == Violation(a, node) IN
         CollectViolations_EarlyOnly(a, node + 1,
             IF x.early_min # 0 THEN Append(violations, x) ELSE violations)

\* Mutant: only late arrivals are recorded
RECURSIVE CollectViolations_LateOnly(_, _, _)
CollectViolations_LateOnly(a, node, violations) ==
    IF node >= NLocations THEN violations
    ELSE LET x == Violation(a, node) IN
         CollectViolations_LateOnly(a, node + 1,
             IF x.late_min # 0 THEN Append(violations, x) ELSE violations)

RECURSIVE CollectViolations(_, _, _)
CollectViolations(a, node, violations) ==
    IF node >= NLocations THEN violations
    ELSE LET x == Violation(a, node) IN
         CollectViolations(a, node + 1,
             IF x.early_min # 0 \/ x.late_min # 0 THEN Append(violations, x)
             ELSE violations)

\* violations.sort(key=(late_min, early_min), reverse=True); the sort is stable
KeyGreater(x, y) ==
    x.late_min > y.late_min \/ (x.late_min = y.late_min /\ x.early_min > y.early_min)
\* Mutant: the list is left in node order
InsertByKeyDesc_Append(sorted, x) == Append(sorted, x)

RECURSIVE InsertByKeyDesc(_, _)
InsertByKeyDesc(sorted, x) ==
    IF sorted = <<>> THEN <<x>>
    ELSE IF KeyGreater(x, Head(sorted)) THEN <<x>> \o sorted
    ELSE <<Head(sorted)>> \o InsertByKeyDesc(Tail(sorted), x)
RECURSIVE SortViolations(_, _, _)
SortViolations(sorted, violations, i) ==
    IF i > Len(violations) THEN sorted
    ELSE SortViolations(InsertByKeyDesc(sorted, violations[i]), violations, i + 1)

\* solve_vrptw_relaxed_soft_timewindows's return value for the assignment a
RelaxedResult(a, dws) ==
    [routes |-> ExtractRoutes(a, 0, <<>>),
     violations |-> SortViolations(<<>>, CollectViolations(a, 1, <<>>), 1),
     depot_windows |-> dws]

-----------------------------------------------------------------------------
(* Post-processing of routes: route_stats.compute_route_totals and the rows
   of export_excel.export_solution_to_excel *)

\* Mutant: the subtraction without the clamp at 0
SegmentWait_NoClamp(route, k, tm, svc) ==
    route[k][2] - route[k - 1][2] - tm[route[k - 1][1] + 1][route[k][1] + 1]
        - (IF route[k][1] # 0 THEN svc[route[k][1] + 1] ELSE 0)

\* wait on the segment into step k >= 2 (seq = k - 1 >= 1 in the code):
\* tmin - prev_tmin - travel - service, set to 0 when negative
SegmentWait(route, k, tm, svc) ==
    LET node == route[k][1]
        tmin == route[k][2]
        prev_node == route[k - 1][1]
        prev_tmin == route[k - 1][2]
        travel == tm[prev_node + 1][node + 1]
        service == IF node # 0 THEN svc[node + 1] ELSE 0
        wait == tmin - prev_tmin - travel - service
    IN  IF wait < 0 THEN 0 ELSE wait

\* the sums of one route after its first k steps
RECURSIVE RouteSums(_, _, _, _, _)
RouteSums(route, k, tm, dm, svc) ==
    IF k <= 1
    THEN [drive_sum |-> 0, wait_sum |-> 0, service_sum |-> 0, dist_sum_m |-> 0, n_stops |-> 0]
    ELSE LET acc == RouteSums(route, k - 1, tm, dm, svc)
             node == route[k][1]
             prev_node == route[k - 1][1]
         IN  [drive_sum |-> acc.drive_sum + tm[prev_node + 1][node + 1],
              wait_sum |-> acc.wait_sum + SegmentWait(route, k, tm, svc),
              service_sum |-> acc.service_sum + (IF node # 0 THEN svc[node + 1] ELSE 0),
              dist_sum_m |-> acc.dist_sum_m + dm[prev_node + 1][node + 1],
              n_stops |-> acc.n_stops + (IF node # 0 THEN 1 ELSE 0)]

\* Mutant: the service minutes are left out of total_time_min
RouteTotals_NoServiceInTotal(route, r_idx, tm, dm, svc) ==
    LET x == RouteSums(route, Len(route), tm, dm, svc) IN
    [route_id |-> r_idx, n_stops |-> x.n_stops, total_dist_m |-> x.dist_sum_m,
     total_drive_min |-> x.drive_sum, total_wait_min |-> x.wait_sum,
     total_service_min |-> x.service_sum,
     total_time_min |-> x.drive_sum + x.wait_sum]

\* the dict appended for route number r_idx; total_dist_km is kept in metres
RouteTotals(route, r_idx, tm, dm, svc) ==
    LET x == RouteSums(route, Len(route), tm, dm, svc) IN
    [route_id |-> r_idx, n_stops |-> x.n_stops, total_dist_m |-> x.dist_sum_m,
     total_drive_min |-> x.drive_sum, total_wait_min |-> x.wait_sum,
     total_service_min |-> x.service_sum,
     total_time_min |-> x.drive_sum + x.wait_sum + x.service_sum]

\* compute_route_totals: routes with fewer than two steps are skipped
RECURSIVE ComputeRouteTotals(_, _, _, _, _, _)
ComputeRouteTotals(routes, r_idx, tm, dm, svc, totals) ==
    IF r_idx > Len(routes) THEN totals
    ELSE ComputeRouteTotals(routes, r_idx + 1, tm, dm, svc,
             IF Len(routes[r_idx]) < 2 THEN totals
             ELSE Append(totals, RouteTotals(routes[r_idx], r_idx, tm, dm, svc)))

\* the row export_solution_to_excel writes for step k of route r_idx (seq = k - 1)
ExportRow(route, r_idx, k, tm, dm, svc) ==
    LET node == route[k][1]
        travel == IF k = 1 THEN 0 ELSE tm[route[k - 1][1] + 1][node + 1]
        service == IF k = 1 THEN 0 ELSE IF node # 0 THEN svc[node + 1] ELSE 0
        wait == IF k = 1 THEN 0 ELSE SegmentWait(route, k, tm, svc)
    IN  [route_id |-> r_idx, seq |-> k - 1, node_index |-> node, arrival_min |-> route[k][2],
         prev_node_index |-> IF k = 1 THEN -1 ELSE route[k - 1][1],
         travel_min_from_prev |-> travel, wait_min_from_prev |-> wait,
         service_min_at_node |-> service, segment_total_min |-> travel + wait + service,
         dist_m_from_prev |-> IF k = 1 THEN 0 ELSE dm[route[k - 1][1] + 1][node + 1]]

\* the rows of the sheet "routes", route by route and step by step
RECURSIVE ExportRows(_, _, _, _, _, _, _)
ExportRows(routes, r_idx, k, tm, dm, svc, rows) ==
    IF r_idx > Len(routes) THEN rows
    ELSE IF Len(routes[r_idx]) < 2 \/ k > Len(routes[r_idx])
    THEN ExportRows(routes, r_idx + 1, 1, tm, dm, svc, rows)
    ELSE ExportRows(routes, r_idx, k + 1, tm, dm, svc,
                    Append(rows, ExportRow(routes[r_idx], r_idx, k, tm, dm, svc)))

-----------------------------------------------------------------------------
(* Inputs of the pipeline: the node lists, the matrix and the settings *)

WindowPatterns == {"same", "staggered"}

\* customer i's pickup window: all 10:00-10:01, or ten minutes apart
CustomerWindow(pat, i) ==
    IF pat = "same" THEN <<600, 601>> ELSE <<600 + 10 * (i - 1), 601 + 10 * (i - 1)>>

\* What build_nodes_mandatory_both_windows and build_matrices hand to the
\* solver for n customers: node 0 is the depot without a window, the depot is
\* 10 minutes (7000 m) from every customer, customers are cc minutes apart.
MakeInst(n, pat, cc, service, nv, wait, dur) ==
    [num_vehicles |-> nv, max_wait_min |-> wait, max_route_duration_min |-> dur,
     tws |-> [k \in 1 .. n + 1 |-> IF k = 1 THEN <<>> ELSE CustomerWindow(pat, k - 1)],
     svc |-> [k \in 1 .. n + 1 |-> IF k = 1 THEN 0 ELSE service],
     tm  |-> [x \in 1 .. n + 1 |-> [y \in 1 .. n + 1 |->
                 IF x = y THEN 0 ELSE IF x = 1 \/ y = 1 THEN 10 ELSE cc]],
     dm  |-> [x \in 1 .. n + 1 |-> [y \in 1 .. n + 1 |->
                 IF x = y THEN 0 ELSE IF x = 1 \/ y = 1 THEN 7000 ELSE 700 * cc]]]

Instances ==
    {MakeInst(n, pat, cc, service, nv, wait, dur) :
        n \in 0 .. MaxCustomers, pat \in WindowPatterns, cc \in {0, 10},
        service \in {0, 1}, nv \in 0 .. MaxVehicles, wait \in {0, 1},
        dur \in {0, 21}}

\* Depot settings of the pipeline runs: one window; two unsorted windows; two
\* windows with the minute 10:11 between them; the single minute 10:12; a
\* window no route can reach; no window at all
PipelineDepots ==
    { << Pair(HM(10, 10), HM(10, 11)), Absent, Absent >>,
      << Pair(HM(10, 20), HM(10, 21)), Pair(HM(10, 10), HM(10, 10)), Absent >>,
      << Pair(HM(10, 10), HM(10, 10)), Pair(HM(10, 12), HM(10, 12)), Absent >>,
      << Pair(HM(10, 12), HM(10, 12)), Absent, Absent >>,
      << Pair(HM(0, 5), HM(0, 6)), Absent, Absent >>,
      << Absent, Absent, Absent >> }

-----------------------------------------------------------------------------
(* Specification Spec: the solve pipeline of app.py and main.py *)

Init ==
    /\ pc = "load"
    /\ frontend \in {"app", "cli"}
    /\ IF frontend = "app"
       THEN depot \in PipelineDepots /\ inst \in Instances
       ELSE depot = DefaultDepot /\ inst = NoInst
    /\ dw = NoResult
    /\ dw2 = NoResult
    /\ endDom = TimeCumulDomain
    /\ sol = NoSol
    /\ result = NoSolveResult
    /\ hard = "not_run"
    /\ relaxed = "not_run"
    /\ ui = NoUi
    /\ post = NoPost
    /\ mx = NoMx

\* main.py, step 1: build_nodes_mandatory_both_windows returns seven values,
\* the call site unpacks five names, which raises ValueError
CliLoad ==
    /\ frontend = "cli" /\ pc = "load"
    /\ pc' = "crashed"
    /\ ui' = [ui EXCEPT !.msgs = @ \cup {"ValueError"}]
    /\ UNCHANGED <<depot, dw, dw2, endDom, frontend, inst, sol, result, hard, relaxed, post, mx>>

\* app.py, steps 1 and 2: nodes and matrices; stops when there is no customer
AppLoad ==
    /\ frontend = "app" /\ pc = "load"
    /\ IF NLocations <= 1
       THEN /\ pc' = "stopped"
            /\ ui' = [ui EXCEPT !.msgs = @ \cup {"no_pickup_windows"}]
       ELSE /\ pc' = "precheck"
            /\ ui' = ui
    /\ UNCHANGED <<depot, dw, dw2, endDom, frontend, inst, sol, result, hard, relaxed, post, mx>>

\* app.py, step 3: depot_union_windows is called outside any try block
Precheck ==
    /\ frontend = "app" /\ pc = "precheck"
    /\ dw' = DepotUnionWindows(depot)
    /\ pc' = IF dw'.ok THEN "solve" ELSE "crashed"
    /\ ui' = IF dw'.ok THEN ui ELSE [ui EXCEPT !.msgs = @ \cup {"ValueError"}]
    /\ UNCHANGED <<depot, dw2, endDom, frontend, inst, sol, result, hard, relaxed, post, mx>>

SomeCustomerWithoutWindow == \E c \in Customers : TimeWindow(c) = <<>>

\* What the call of solve_vrptw can end with
SolveVrptwOutcomes ==
    LET dws == DepotUnionWindows(depot) IN
    IF NLocations # Len(inst.tm) THEN {[kind |-> "ValueError", a |-> NoSol]}
    ELSE IF ~dws.ok THEN {[kind |-> "ValueError", a |-> NoSol]}
    ELSE IF SomeCustomerWithoutWindow THEN {[kind |-> "RuntimeError", a |-> NoSol]}
    ELSE {[kind |-> "INFEASIBLE", a |-> NoSol]} \cup
         {[kind |-> "ok", a |-> x] :
             x \in Solutions("hard", RestrictIntvarToUnion(TimeCumulDomain, dws.wins))}

\* What the call of solve_vrptw_relaxed_soft_timewindows can end with
SolveRelaxedOutcomes ==
    LET dws == DepotUnionWindows(depot) IN
    IF ~dws.ok THEN {[kind |-> "ValueError", a |-> NoSol]}
    ELSE IF SomeCustomerWithoutWindow THEN {[kind |-> "RuntimeError", a |-> NoSol]}
    ELSE {[kind |-> "none", a |-> NoSol]} \cup
         {[kind |-> "ok", a |-> x] :
             x \in Solutions("relaxed", RestrictIntvarToUnion(TimeCumulDomain, dws.wins))}

\* Mutant: INFEASIBLE handled like any other RuntimeError
AfterHardSolve_NoFallback(kind) ==
    IF kind = "ok" THEN [pc |-> "show", msgs |-> {"hard_success"}, hard |-> "ok"]
    ELSE IF kind = "ValueError" THEN [pc |-> "crashed", msgs |-> {"ValueError"}, hard |-> "error"]
    ELSE [pc |-> "stopped", msgs |-> {"exception"},
          hard |-> IF kind = "INFEASIBLE" THEN "INFEASIBLE" ELSE "error"]

\* app.py, try / except RuntimeError around solve_vrptw
AfterHardSolve(kind) ==
    IF kind = "ok" THEN [pc |-> "show", msgs |-> {"hard_success"}, hard |-> "ok"]
    ELSE IF kind = "ValueError" THEN [pc |-> "crashed", msgs |-> {"ValueError"}, hard |-> "error"]
    ELSE IF kind # "INFEASIBLE" THEN [pc |-> "stopped", msgs |-> {"exception"}, hard |-> "error"]
    ELSE [pc |-> "phase2", msgs |-> {"no_hard_solution"}, hard |-> "INFEASIBLE"]

\* Mutant: a missing relaxed solution is not told apart from a found one
AfterRelaxedSolve_NoStop(kind) ==
    IF kind = "none" \/ kind = "ok"
    THEN [pc |-> "show", msgs |-> {"violations"}, is_relaxed |-> TRUE, relaxed |-> kind]
    ELSE [pc |-> "crashed", msgs |-> {kind}, is_relaxed |-> FALSE, relaxed |-> "error"]

\* app.py, after solve_vrptw_relaxed_soft_timewindows returned or raised
AfterRelaxedSolve(kind) ==
    IF kind = "none"
    THEN [pc |-> "stopped", msgs |-> {"no_solution_relaxed"}, is_relaxed |-> FALSE,
          relaxed |-> "none"]
    ELSE IF kind = "ok"
    THEN [pc |-> "show", msgs |-> {"violations"}, is_relaxed |-> TRUE, relaxed |-> "ok"]
    ELSE [pc |-> "crashed", msgs |-> {kind}, is_relaxed |-> FALSE, relaxed |-> "error"]

\* app.py, step 4: the hard solve and, in its except branch, the relaxed
\* solve, with what the script does with their outcomes
Solve ==
    /\ frontend = "app" /\ pc = "solve"
    /\ \E o \in SolveVrptwOutcomes :
        LET h == AfterHardSolve(o.kind)
            dws == DepotUnionWindows(depot).wins
        IN  /\ hard' = h.hard
            /\ endDom' = RestrictIntvarToUnion(TimeCumulDomain, dws)
            /\ IF h.pc # "phase2"
               THEN /\ pc' = h.pc
                    /\ relaxed' = relaxed
                    /\ ui' = [ui EXCEPT !.msgs = @ \cup h.msgs]
                    /\ sol' = o.a
                    /\ result' = IF o.kind = "ok" THEN HardResult(o.a, dws) ELSE result
               ELSE \E o2 \in SolveRelaxedOutcomes :
                    LET x == AfterRelaxedSolve(o2.kind) IN
                    /\ pc' = x.pc
                    /\ relaxed' = x.relaxed
                    /\ ui' = [ui EXCEPT !.msgs = @ \cup h.msgs \cup x.msgs,
                                        !.is_relaxed = x.is_relaxed]
                    /\ sol' = o2.a
                    /\ result' = IF o2.kind = "ok" THEN RelaxedResult(o2.a, dws)
                                 ELSE result
    /\ UNCHANGED <<depot, dw, dw2, frontend, inst, post, mx>>

\* app.py, step 5: the tabs are drawn, the cost tab calls compute_route_totals,
\* and export_solution_to_excel is called without its first parameter
\* out_path, which raises TypeError
ShowResults ==
    /\ frontend = "app" /\ pc = "show"
    /\ post' = [post EXCEPT !.totals =
                    ComputeRouteTotals(result.routes, 1, inst.tm, inst.dm, inst.svc, <<>>)]
    /\ pc' = "export_error"
    /\ ui' = [ui EXCEPT !.msgs = @ \cup {"TypeError"}, !.export_called = TRUE]
    /\ UNCHANGED <<depot, dw, dw2, endDom, frontend, inst, sol, result, hard, relaxed, mx>>

Next == CliLoad \/ AppLoad \/ Precheck \/ Solve \/ ShowResults

Spec == Init /\ [][Next]_vars

-----------------------------------------------------------------------------
(* Claims about the solves and the pipeline, checked under Spec *)

\* the places <<route, step>> of the returned routes at which node c stands
Visits(routes, c) ==
    UNION {{<<r, k>> : k \in {j \in 1 .. Len(routes[r]) : routes[r][j][1] = c}} :
           r \in 1 .. Len(routes)}

\* C1: in every result of the hard solve each customer node 1 .. N-1 stands
\* in exactly one returned route, exactly once, whatever the number of vehicles.
Thm_C1_EachCustomerOnce ==
    hard = "ok" => \A c \in Customers : Cardinality(Visits(result.routes, c)) = 1

\* a hard result that uses two vehicles
Wit_C1_TwoRoutes ==
    /\ hard = "ok"
    /\ Len(result.routes) = 2
    /\ Cardinality(Customers) = 2

\* C2: in every result of the hard solve the arrival minute reported for a
\* customer visit lies inside that node's window, both ends included.
Thm_C2_HardArrivalInWindow ==
    hard = "ok" =>
        \A r \in 1 .. Len(result.routes) : \A k \in 1 .. Len(result.routes[r]) :
            LET step == result.routes[r][k] IN
            step[1] # 0 =>
                /\ inst.tws[step[1] + 1][1] <= step[2]
                /\ step[2] <= inst.tws[step[1] + 1][2]

\* a hard result with one customer served at the first and another at the
\* last minute of its window
Wit_C2_BothWindowEnds ==
    /\ hard = "ok"
    /\ \E r \in 1 .. Len(result.routes) : \E k \in 1 .. Len(result.routes[r]) :
          /\ result.routes[r][k][1] # 0
          /\ result.routes[r][k][2] = inst.tws[result.routes[r][k][1] + 1][2]
    /\ \E r \in 1 .. Len(result.routes) : \E k \in 1 .. Len(result.routes[r]) :
          /\ result.routes[r][k][1] # 0
          /\ result.routes[r][k][2] = inst.tws[result.routes[r][k][1] + 1][1]

\* the last step of a returned route
FinalStep(route) == route[Len(route)]

\* C3: every route returned by the hard or by the relaxed solve ends with a
\* depot visit whose arrival minute lies inside some interval of the merged
\* depot admission domain.
Thm_C3_FinalArrivalAdmitted ==
    (hard = "ok" \/ relaxed = "ok") =>
        \A r \in 1 .. Len(result.routes) :
            /\ FinalStep(result.routes[r])[1] = 0
            /\ \E i \in 1 .. Len(dw.wins) :
                  /\ dw.wins[i][1] <= FinalStep(result.routes[r])[2]
                  /\ FinalStep(result.routes[r])[2] <= dw.wins[i][2]

\* a relaxed result with a window violation whose route ends in the second
\* interval of a two-interval domain
Wit_C3_RelaxedEndsInSecondInterval ==
    /\ relaxed = "ok"
    /\ result.violations # <<>>
    /\ Len(dw.wins) = 2
    /\ \E r \in 1 .. Len(result.routes) :
          FinalStep(result.routes[r])[2] >= dw.wins[2][1]

Phase2Started == relaxed # "not_run"

\* C9: the relaxed solve is started if and only if the hard solve has finished
\* with INFEASIBLE: never after a hard success or another error, always after
\* an INFEASIBLE.
Thm_C9_Phase2IffInfeasible ==
    /\ Phase2Started <=> hard = "INFEASIBLE"
    /\ hard \in {"ok", "error"} => ~Phase2Started
    /\ hard = "not_run" => pc \in {"load", "precheck", "solve", "stopped", "crashed"}

\* the relaxed solve has run after an INFEASIBLE hard solve and its result is shown
Wit_C9_Phase2AfterInfeasible ==
    /\ hard = "INFEASIBLE"
    /\ relaxed = "ok"
    /\ pc = "show"

\* what the run has reported about its outcome
OutcomeMessages == {"hard_success", "no_hard_solution", "violations", "no_solution_relaxed"}
Signature == <<ui.msgs \cap OutcomeMessages, ui.is_relaxed>>

\* C10: a hard solution, a relaxed diagnostic solution and no solution at all
\* are reported differently; when the relaxed solve returns nothing the run
\* stops there, without an export and without any further step.
Thm_C10_ThreeOutcomes ==
    /\ [](/\ hard = "ok" => Signature = <<{"hard_success"}, FALSE>>
          /\ relaxed = "ok" => Signature = <<{"no_hard_solution", "violations"}, TRUE>>
          /\ relaxed = "none" =>
                /\ Signature = <<{"no_hard_solution", "no_solution_relaxed"}, FALSE>>
                /\ pc = "stopped"
                /\ ~ui.export_called
                /\ ~ENABLED Next)
    /\ [][relaxed # "none"]_vars

\* the relaxed solve returned nothing and the run has stopped
Wit_C10_NoSolutionAtAll ==
    /\ relaxed = "none"
    /\ pc = "stopped"
    /\ "no_solution_relaxed" \in ui.msgs

\* the assignments of all customers to at most NumVehicles depot-to-depot
\* routes that meet the hard windows, the covering constraint, the wait
\* ceiling and the depot admission domain
AssignmentsMeetingListedConstraints ==
    UNION {{[route |-> r, time |-> ts] :
               ts \in TimeProducts(r, NumVehicles, endDom, "hard")} : r \in Routings}

\* C11 (as claimed): the hard solve signals INFEASIBLE only when no assignment
\* meets the hard windows, the covering constraint, the wait ceiling and the
\* depot admission domain together.
Orig_C11_InfeasibleOnlyIfNoAssignment ==
    hard = "INFEASIBLE" => AssignmentsMeetingListedConstraints = {}

\* elapsed minutes of a returned route, from the departure written by the
\* departure repair to the final depot arrival
Elapsed(route) == FinalStep(route)[2] - route[1][2]

\* C12 (as claimed): with a positive max_route_duration_min every route
\* returned by either solve lasts, waiting included, at most
\* max_route_duration_min from departure to final depot arrival.
Orig_C12_ElapsedWithinMaxDuration ==
    (inst.max_route_duration_min > 0 /\ (hard = "ok" \/ relaxed = "ok")) =>
        \A r \in 1 .. Len(result.routes) :
            Elapsed(result.routes[r]) <= inst.max_route_duration_min

\* the waiting on the leg into step k >= 2 of a returned route:
\* arrival[k] - arrival[k-1] - travel - service, service 0 at the depot
LegWait(route, k) ==
    route[k][2] - route[k - 1][2]
        - inst.tm[route[k - 1][1] + 1][route[k][1] + 1]
        - (IF route[k][1] # 0 THEN inst.svc[route[k][1] + 1] ELSE 0)

\* C13: in every route returned by either solve the waiting on each leg, the
\* first leg from the depot and the last leg back included, is at most
\* max_wait_min.
Thm_C13_LegWaitAtMostMaxWait ==
    (hard = "ok" \/ relaxed = "ok") =>
        \A r \in 1 .. Len(result.routes) : \A k \in 2 .. Len(result.routes[r]) :
            LegWait(result.routes[r], k) <= inst.max_wait_min

\* a hard result that waits the full max_wait_min between two customers and
\* again on the way back to the depot
Wit_C13_FullWaitOnTwoLegs ==
    /\ hard = "ok"
    /\ inst.max_wait_min = 1
    /\ \E r \in 1 .. Len(result.routes) :
          /\ Len(result.routes[r]) = 4
          /\ LegWait(result.routes[r], 3) = 1
          /\ LegWait(result.routes[r], 4) = 1

\* C14: every returned route is, after the departure repair, consistent with
\* the matrix: each visit after the first is at least travel plus service
\* (none at the depot) later than the visit before it.
Thm_C14_ArrivalsConsistentWithMatrix ==
    (hard = "ok" \/ relaxed = "ok") =>
        \A r \in 1 .. Len(result.routes) : \A k \in 2 .. Len(result.routes[r]) :
            LegWait(result.routes[r], k) >= 0

\* a returned route whose start was rewritten by the repair (the solver had
\* reported an earlier start) and whose customer has a service time
Wit_C14_RepairedStartWithService ==
    /\ hard = "ok"
    /\ Len(result.routes) = 1
    /\ sol.time[1][1] < result.routes[1][1][2]
    /\ inst.svc[result.routes[1][2][1] + 1] = 1

\* the vehicle (from 1) of the assignment that serves the first customer of a
\* returned route
VehicleOfRoute(route) ==
    CHOOSE v \in 1 .. Len(sol.route) : \E k \in 1 .. Len(sol.route[v]) :
        sol.route[v][k] = route[2][1]

\* C15: in every route returned by the hard or the relaxed solve the time of
\* the first (depot) visit is max(0, first customer's arrival - travel(depot,
\* first customer) - service(first customer)), whatever start the solver
\* reported; its node and wait fields and all other visits are as the solver
\* reported them.
Thm_C15_DepartureRepair ==
    (hard = "ok" \/ relaxed = "ok") =>
        \A r \in 1 .. Len(result.routes) :
            LET route == result.routes[r]
                first == route[2][1]
                v == VehicleOfRoute(route)
            IN  /\ route[1] = <<0, Max(0, route[2][2] - inst.tm[1][first + 1]
                                              - inst.svc[first + 1]), 0>>
                /\ Len(route) = Len(sol.route[v]) + 2
                /\ \A k \in 2 .. Len(route) :
                      /\ route[k][2] = sol.time[v][k]
                      /\ route[k][1] = IF k = Len(route) THEN 0 ELSE sol.route[v][k - 1]
                      /\ route[k][3] = IF k = Len(route) THEN 0
                                       ELSE Max(0, inst.tws[route[k][1] + 1][1] - route[k][2])

\* a relaxed result with two routes, both with a start the solver had
\* reported earlier than the repaired departure
Wit_C15_RelaxedBothStartsRewritten ==
    /\ relaxed = "ok"
    /\ Len(result.routes) = 2
    /\ \A r \in 1 .. 2 :
          sol.time[VehicleOfRoute(result.routes[r])][1] < result.routes[r][1][2]

-----------------------------------------------------------------------------
(* Specification SpecStats: compute_route_totals and the export rows on
   arbitrary routes, matrices and service lists *)

MaxRouteLen == 3

\* steps (node, tmin, wait) over three nodes and a few minutes
StatSteps == {<<node, tmin, 0>> : node \in 0 .. 2, tmin \in {0, 5, 20}}

RECURSIVE StatRoutesOfLen(_)
StatRoutesOfLen(n) ==
    IF n = 0 THEN {<<>>}
    ELSE UNION {{Append(q, x) : x \in StatSteps} : q \in StatRoutesOfLen(n - 1)}
StatRoutes == UNION {StatRoutesOfLen(n) : n \in 0 .. MaxRouteLen}

\* a route that is consistent with every matrix below
SteadyRoute == <<<<0, 0, 0>>, <<1, 40, 0>>, <<0, 80, 0>>>>

\* matrices with short and with long legs, service lists without service,
\* with service at the customers, and with a value in the depot's place
StatInsts ==
    {[num_vehicles |-> 1, max_wait_min |-> 0, max_route_duration_min |-> 0, tws |-> <<>>,
      svc |-> service,
      tm |-> [x \in 1 .. 3 |-> [y \in 1 .. 3 |-> IF x = y THEN 0 ELSE leg + (IF x < y THEN 1 ELSE 0)]],
      dm |-> [x \in 1 .. 3 |-> [y \in 1 .. 3 |-> IF x = y THEN 0 ELSE 700 * leg]]] :
        leg \in {4, 30}, service \in {<<0, 0, 0>>, <<0, 3, 3>>, <<7, 3, 3>>}}

InitStats ==
    /\ pc = "stats_input"
    /\ inst \in StatInsts
    /\ \E route \in StatRoutes :
          result = [routes |-> <<route, SteadyRoute>>, depot_windows |-> <<>>]
    /\ depot = DefaultDepot
    /\ dw = NoResult
    /\ dw2 = NoResult
    /\ endDom = TimeCumulDomain
    /\ frontend = "none"
    /\ sol = NoSol
    /\ hard = "not_run"
    /\ relaxed = "not_run"
    /\ ui = NoUi
    /\ post = NoPost
    /\ mx = NoMx

\* compute_route_totals(routes, time_matrix_min, dist_matrix_m, node_service_mins)
CallComputeRouteTotals ==
    /\ pc = "stats_input"
    /\ post' = [post EXCEPT !.totals =
                    ComputeRouteTotals(result.routes, 1, inst.tm, inst.dm, inst.svc, <<>>)]
    /\ pc' = "stats_totals"
    /\ UNCHANGED <<depot, dw, dw2, endDom, frontend, inst, sol, result, hard, relaxed, ui, mx>>

\* the per-step rows of export_solution_to_excel for the same routes
CallExportRows ==
    /\ pc = "stats_totals"
    /\ post' = [post EXCEPT !.rows =
                    ExportRows(result.routes, 1, 1, inst.tm, inst.dm, inst.svc, <<>>)]
    /\ pc' = "stats_rows"
    /\ UNCHANGED <<depot, dw, dw2, endDom, frontend, inst, sol, result, hard, relaxed, ui, mx>>

NextStats == CallComputeRouteTotals \/ CallExportRows

SpecStats == InitStats /\ [][NextStats]_vars

-----------------------------------------------------------------------------
(* Claims about the post-processing, checked under SpecStats *)

RECURSIVE ClampedWaitSum(_, _)
ClampedWaitSum(route, k) ==
    IF k <= 1 THEN 0
    ELSE ClampedWaitSum(route, k - 1)
            + (IF LegWait(route, k) >= 0 THEN LegWait(route, k) ELSE 0)

\* C16: the post-processor's wait of each visit after the first is never
\* negative, equals arrival[i] - arrival[i-1] - travel - service whenever
\* that is non-negative and is 0 otherwise, for consistent and inconsistent
\* inputs; the route total is the sum of these waits.
Thm_C16_WaitIsClampedSubtraction ==
    /\ pc = "stats_rows" =>
          /\ \A i \in 1 .. Len(post.rows) :
                LET row == post.rows[i]
                    exact == LegWait(result.routes[row.route_id], row.seq + 1)
                IN  row.seq >= 1 =>
                        /\ row.wait_min_from_prev >= 0
                        /\ exact >= 0 => row.wait_min_from_prev = exact
                        /\ exact < 0 => row.wait_min_from_prev = 0
          /\ \A r \in 1 .. Len(result.routes) : \A k \in 2 .. Len(result.routes[r]) :
                \E i \in 1 .. Len(post.rows) :
                    post.rows[i].route_id = r /\ post.rows[i].seq = k - 1
    /\ pc \in {"stats_totals", "stats_rows"} =>
          \A i \in 1 .. Len(post.totals) :
              LET route == result.routes[post.totals[i].route_id] IN
              /\ post.totals[i].total_wait_min >= 0
              /\ post.totals[i].total_wait_min = ClampedWaitSum(route, Len(route))

\* a route with one leg the matrix says is impossible (clamped to 0) and one
\* leg with real waiting
Wit_C16_ClampedAndExactLegs ==
    /\ pc = "stats_rows"
    /\ Len(result.routes[1]) = 3
    /\ LegWait(result.routes[1], 2) < 0
    /\ LegWait(result.routes[1], 3) > 0
    /\ post.totals[1].total_wait_min = LegWait(result.routes[1], 3)

-----------------------------------------------------------------------------
(* Further claims about the solves, checked under Spec *)

\* C17: every returned route starts and ends with a depot visit, has at
\* least one customer visit and no depot visit in between; a vehicle without
\* customers contributes no route, so there are at most max(1, num_vehicles)
\* routes.
Thm_C17_RouteShape ==
    (hard = "ok" \/ relaxed = "ok") =>
        /\ \A r \in 1 .. Len(result.routes) :
              LET route == result.routes[r] IN
              /\ Len(route) >= 3
              /\ route[1][1] = 0
              /\ route[Len(route)][1] = 0
              /\ \A k \in 2 .. Len(route) - 1 : route[k][1] # 0
        /\ Len(result.routes) <= (IF inst.num_vehicles > 1 THEN inst.num_vehicles ELSE 1)
        /\ Len(result.routes) =
              Cardinality({v \in 1 .. Len(sol.route) : sol.route[v] # <<>>})

\* two vehicles configured, one of them unused: a single route with both customers
Wit_C17_IdleVehicleOmitted ==
    /\ hard = "ok"
    /\ inst.num_vehicles = 2
    /\ Len(result.routes) = 1
    /\ Len(result.routes[1]) = 4

\* (late_min, early_min) of a is lexicographically at least that of b
KeyAtLeast(a, b) ==
    a.late_min > b.late_min \/ (a.late_min = b.late_min /\ a.early_min >= b.early_min)

\* C18: the violation list of a relaxed result is in descending order of
\* (late_min, early_min): each record's pair is at least the next one's.
Thm_C18_ViolationsSortedDescending ==
    relaxed = "ok" =>
        \A i \in 1 .. Len(result.violations) - 1 :
            KeyAtLeast(result.violations[i], result.violations[i + 1])

\* two violations that the sort had to swap: the later node is the later one
Wit_C18_SwappedBySort ==
    /\ relaxed = "ok"
    /\ Len(result.violations) = 2
    /\ result.violations[1].node > result.violations[2].node
    /\ result.violations[1].late_min > result.violations[2].late_min

\* the arrival minute the returned routes report for customer c
ArrivalOf(c) ==
    LET at == CHOOSE x \in Visits(result.routes, c) : TRUE
    IN  result.routes[at[1]][at[2]][2]

\* the places of the violation list that hold a record for node c
RecordsOf(c) == {i \in 1 .. Len(result.violations) : result.violations[i].node = c}

\* C19: in a relaxed result, for every customer with arrival t and window
\* [s, e], the violation list has a record for the node iff t < s or t > e,
\* never more than one, and the record holds early_min = max(0, s - t),
\* late_min = max(0, t - e), time_min = t and tw = (s, e).
Thm_C19_ViolationRecords ==
    relaxed = "ok" =>
        \A c \in 1 .. Len(inst.tws) - 1 :
            LET t == ArrivalOf(c)
                s == inst.tws[c + 1][1]
                e == inst.tws[c + 1][2]
            IN  /\ Cardinality(RecordsOf(c)) <= 1
                /\ RecordsOf(c) # {} <=> (t < s \/ t > e)
                /\ \A i \in RecordsOf(c) :
                      result.violations[i] =
                          [node |-> c, time_min |-> t,
                           early_min |-> IF s - t > 0 THEN s - t ELSE 0,
                           late_min |-> IF t - e > 0 THEN t - e ELSE 0,
                           tw |-> <<s, e>>]

\* a relaxed result with one customer early, one late and hence two records
Wit_C19_OneEarlyOneLate ==
    /\ relaxed = "ok"
    /\ Len(result.violations) = 2
    /\ result.violations[1].late_min > 0
    /\ result.violations[2].early_min > 0

-----------------------------------------------------------------------------
(* matrix.build_matrices_osrm.  A coordinate (lat, lon) is a natural number;
   the provider reports tenths of seconds and tenths of metres, or null. *)

OsrmChunkSize == 25

\* Python's round() on num / den for num >= 0: to the nearest integer, a
\* half to the even neighbour
RoundHalfEven(num, den) ==
    LET q == num \div den
        r == num % den
    IN  IF 2 * r < den THEN q
        ELSE IF 2 * r > den THEN q + 1
        ELSE IF q % 2 = 0 THEN q ELSE q + 1

Null == [null |-> TRUE, v |-> 0]
Val(x) == [null |-> FALSE, v |-> x]
AbsDiff(a, b) == IF a >= b THEN a - b ELSE b - a

\* What the table service answers for the pair of coordinates (a, b): the
\* duration in tenths of seconds and the distance in tenths of metres.
\* "grid": a route for every pair; "selfloop": also a non-zero value from a
\* coordinate to itself; "holes": no route for some pairs.
ProviderCell(prov, a, b) ==
    IF a = b
    THEN IF prov = "selfloop" THEN [dur |-> Val(600), dist |-> Val(10)]
         ELSE [dur |-> Val(0), dist |-> Val(0)]
    ELSE IF prov = "holes" /\ (a + b) % 5 = 4 THEN [dur |-> Null, dist |-> Null]
    ELSE [dur |-> Val(900 * AbsDiff(a, b) + 300 * (a % 2)),
          dist |-> Val(10005 * AbsDiff(a, b))]

\* _osrm_sub_table: one row per source, one column per destination, the
\* sources and destinations given as places (from 0) in sub_coords
OsrmSubTable(prov, sub_coords, src_local, dst_local) ==
    [i \in 1 .. Len(src_local) |-> [j \in 1 .. Len(dst_local) |->
        ProviderCell(prov, sub_coords[src_local[i] + 1], sub_coords[dst_local[j] + 1])]]

\* _osrm_full_table: all coordinates are sources and destinations
OsrmFullTable(prov, coords) ==
    [i \in 1 .. Len(coords) |-> [j \in 1 .. Len(coords) |->
        ProviderCell(prov, coords[i], coords[j])]]

\* 0 if d is None else int(round(d / 60)), d in seconds
DurationToMinutes(d) == IF d.null THEN 0 ELSE RoundHalfEven(d.v, 600)
\* 0 if d is None else int(round(d)), d in metres
DistanceToMetres(d) == IF d.null THEN 0 ELSE RoundHalfEven(d.v, 10)

\* place (from 1) of x in a list without repetition, 0 when x is not in it
\* ("x in seen" and seen[x] of the code's dictionaries, whose keys are the
\* entries of the list built beside them)
PlaceIn(seq, x) ==
    IF \E k \in 1 .. Len(seq) : seq[k] = x
    THEN CHOOSE k \in 1 .. Len(seq) : seq[k] = x
    ELSE 0

\* The list the loop "if x not in seen: seen[x] = len(out); out.append(x)"
\* builds over seq: the first occurrence of every value, in order
FirstOccurrences(seq) ==
    LET indexed == [i \in 1 .. Len(seq) |-> <<i, seq[i]>>]
        IsNew(p) == \A h \in 1 .. p[1] - 1 : seq[h] # p[2]
        kept == SelectSeq(indexed, IsNew)
    IN  SubSeq([k \in 1 .. Len(kept) |-> kept[k][2]], 1, Len(kept))

\* Mutant: a coordinate is only compared with the one of the node before it
Deduplicate_AdjacentOnly(coords) ==
    LET indexed == [i \in 1 .. Len(coords) |-> <<i, coords[i]>>]
        IsNew(p) == p[1] = 1 \/ coords[p[1] - 1] # p[2]
        kept == SelectSeq(indexed, IsNew)
    IN  [unique_coords |-> [k \in 1 .. Len(kept) |-> kept[k][2]],
         node_to_uid |-> [i \in 1 .. Len(coords) |->
                             Len(SelectSeq(SubSeq(indexed, 1, i), IsNew)) - 1]]

\* Step 1: unique ids in first-seen order, node_to_uid for every node
Deduplicate(coords) ==
    LET unique_coords == FirstOccurrences(coords)
    IN  [unique_coords |-> unique_coords,
         node_to_uid |-> [i \in 1 .. Len(coords) |-> PlaceIn(unique_coords, coords[i]) - 1]]

\* range(lo, hi) as a sequence
RangeSeq(lo, hi) == [k \in 1 .. (IF hi > lo THEN hi - lo ELSE 0) |-> lo + k - 1]

\* Mutant: chunks of twice the chunk size
Chunks_DoubleSize(m) ==
    [c \in 1 .. ((m + 2 * OsrmChunkSize - 1) \div (2 * OsrmChunkSize)) |->
        RangeSeq((c - 1) * 2 * OsrmChunkSize, Min(c * 2 * OsrmChunkSize, m))]

\* Mutant: every chunk after the first starts with the last id of the chunk
\* before it
Chunks_Overlapping(m) ==
    [c \in 1 .. ((m + OsrmChunkSize - 1) \div OsrmChunkSize) |->
        RangeSeq((IF c = 1 THEN 0 ELSE (c - 1) * OsrmChunkSize - 1),
                 Min(c * OsrmChunkSize, m))]

\* chunks = [list(range(i, min(i + size, m))) for i in range(0, m, size)]
Chunks(m) ==
    [c \in 1 .. ((m + OsrmChunkSize - 1) \div OsrmChunkSize) |->
        RangeSeq((c - 1) * OsrmChunkSize, Min(c * OsrmChunkSize, m))]

\* combined: the uids of src_chunk + dst_chunk without repetition, in order
Combine(uids) == FirstOccurrences(uids)

\* the request for one (src_chunk, dst_chunk) pair and its answer
ChunkPairRequest(prov, unique_coords, src_chunk, dst_chunk) ==
    LET combined == Combine(src_chunk \o dst_chunk)
        sub_coords == [k \in 1 .. Len(combined) |-> unique_coords[combined[k] + 1]]
        src_local == [k \in 1 .. Len(src_chunk) |-> PlaceIn(combined, src_chunk[k]) - 1]
        dst_local == [k \in 1 .. Len(dst_chunk) |-> PlaceIn(combined, dst_chunk[k]) - 1]
        full_range == RangeSeq(0, Len(sub_coords))
        full == src_local = full_range /\ dst_local = full_range
    IN  [kind |-> IF full THEN "full" ELSE "sub",
         sub_coords |-> sub_coords, src_local |-> src_local, dst_local |-> dst_local,
         raw |-> IF full THEN OsrmFullTable(prov, sub_coords)
                 ELSE OsrmSubTable(prov, sub_coords, src_local, dst_local)]

\* Mutant: the cells of a pair are written at the places inside the chunks,
\* not at the unique ids
WriteBlock_LocalPlaces(uid_m, src_chunk, dst_chunk, values) ==
    [u \in 1 .. Len(uid_m) |-> [w \in 1 .. Len(uid_m[u]) |->
        IF u <= Len(src_chunk) /\ w <= Len(dst_chunk)
        THEN values[u][w]
        ELSE uid_m[u][w]]]

\* the cells of one chunk pair written into a unique x unique matrix
WriteBlock(uid_m, src_chunk, dst_chunk, values) ==
    [u \in 1 .. Len(uid_m) |->
        LET i == PlaceIn(src_chunk, u - 1)
        IN  IF i = 0 THEN uid_m[u]
            ELSE [w \in 1 .. Len(uid_m[u]) |->
                    LET j == PlaceIn(dst_chunk, w - 1)
                    IN  IF j = 0 THEN uid_m[u][w] ELSE values[i][j]]]

\* Step 3: [[uid_m[node_to_uid[i]][node_to_uid[j]] for j in range(n)] for i in range(n)]
ExpandMatrix(uid_m, node_to_uid) ==
    [i \in 1 .. Len(node_to_uid) |-> [j \in 1 .. Len(node_to_uid) |->
        uid_m[node_to_uid[i] + 1][node_to_uid[j] + 1]]]

-----------------------------------------------------------------------------
(* Specification SpecMatrix: build_matrices_osrm on coordinate lists with and
   without repeated coordinates, below and above one chunk *)

MaxNodes == 30
LargeNodes == 51

\* node lists: all coordinates different; every coordinate twice in a row
\* (two pickups of one sender); the last node at the first node's coordinate
CoordPatterns == {"distinct", "pairs", "wrap"}
MakeCoords(pat, n) ==
    [i \in 1 .. n |->
        IF pat = "pairs" THEN (i + 1) \div 2
        ELSE IF pat = "wrap" /\ i = n THEN 1
        ELSE i]

Providers == {"grid", "selfloop", "holes"}

InitMatrix ==
    /\ pc = "mx_input"
    /\ \E pat \in CoordPatterns, n \in (2 .. MaxNodes) \cup {LargeNodes}, prov \in Providers :
          mx = [NoMx EXCEPT !.coords = MakeCoords(pat, n), !.prov = prov]
    /\ depot = DefaultDepot
    /\ dw = NoResult
    /\ dw2 = NoResult
    /\ endDom = TimeCumulDomain
    /\ frontend = "none"
    /\ inst = NoInst
    /\ sol = NoSol
    /\ result = NoSolveResult
    /\ hard = "not_run"
    /\ relaxed = "not_run"
    /\ ui = NoUi
    /\ post = NoPost

\* Mutant: the single request only below the chunk size
SingleRequest_Below(m) == m < OsrmChunkSize

\* if m <= _OSRM_CHUNK_SIZE: one request without sources/destinations
SingleRequest(m) == m <= OsrmChunkSize

\* a request as it is sent, without its answer
SentRequest(kind, sub_coords, src_local, dst_local) ==
    [kind |-> kind, sub_coords |-> sub_coords, src_local |-> src_local,
     dst_local |-> dst_local]

\* Steps 1 and 2 up to the first request: deduplication, then either the one
\* full-table request (m <= chunk size) or the zero-filled matrices of the
\* chunked path
DeduplicateAndBranch ==
    /\ pc = "mx_input"
    /\ LET dd == Deduplicate(mx.coords)
           m == Len(dd.unique_coords)
           raw == OsrmFullTable(mx.prov, dd.unique_coords)
       IN  IF SingleRequest(m)
           THEN /\ mx' = [mx EXCEPT
                     !.unique_coords = dd.unique_coords,
                     !.node_to_uid = dd.node_to_uid,
                     !.uid_time = [u \in 1 .. m |-> [w \in 1 .. m |->
                                     DurationToMinutes(raw[u][w].dur)]],
                     !.uid_dist = [u \in 1 .. m |-> [w \in 1 .. m |->
                                     DistanceToMetres(raw[u][w].dist)]],
                     !.requests = <<SentRequest("full", dd.unique_coords, <<>>, <<>>)>>]
                /\ pc' = "mx_filled"
           ELSE /\ mx' = [mx EXCEPT
                     !.unique_coords = dd.unique_coords,
                     !.node_to_uid = dd.node_to_uid,
                     !.uid_time = [u \in 1 .. m |-> [w \in 1 .. m |-> 0]],
                     !.uid_dist = [u \in 1 .. m |-> [w \in 1 .. m |-> 0]],
                     !.pos = 1]
                /\ pc' = "mx_chunking"
    /\ UNCHANGED <<depot, dw, dw2, endDom, frontend, inst, sol, result, hard, relaxed, ui, post>>

\* the loop body of "for src_chunk in chunks: for dst_chunk in chunks" for
\* pair number p (from 1, row by row): the request, the block it writes
ProcessChunkPair(p) ==
    LET chunks == Chunks(Len(mx.unique_coords))
        nc == Len(chunks)
        src_chunk == chunks[((p - 1) \div nc) + 1]
        dst_chunk == chunks[((p - 1) % nc) + 1]
        req == ChunkPairRequest(mx.prov, mx.unique_coords, src_chunk, dst_chunk)
    IN  [mx EXCEPT
            !.uid_time = WriteBlock(@, src_chunk, dst_chunk,
                [i \in 1 .. Len(src_chunk) |-> [j \in 1 .. Len(dst_chunk) |->
                    DurationToMinutes(req.raw[i][j].dur)]]),
            !.uid_dist = WriteBlock(@, src_chunk, dst_chunk,
                [i \in 1 .. Len(src_chunk) |-> [j \in 1 .. Len(dst_chunk) |->
                    DistanceToMetres(req.raw[i][j].dist)]]),
            !.requests = Append(@, SentRequest(req.kind, req.sub_coords,
                                               req.src_local, req.dst_local)),
            !.done = @ \cup {p}]

\* one pass of the loop, in the order of the code
ChunkPairStep ==
    /\ pc = "mx_chunking"
    /\ LET nc == Len(Chunks(Len(mx.unique_coords)))
       IN  /\ mx' = [ProcessChunkPair(mx.pos) EXCEPT !.pos = @ + 1]
           /\ pc' = IF mx.pos = nc * nc THEN "mx_filled" ELSE "mx_chunking"
    /\ UNCHANGED <<depot, dw, dw2, endDom, frontend, inst, sol, result, hard, relaxed, ui, post>>

\* Step 3 and the return
ExpandToNodes ==
    /\ pc = "mx_filled"
    /\ mx' = [mx EXCEPT !.time_matrix_min = ExpandMatrix(mx.uid_time, mx.node_to_uid),
                        !.dist_matrix_m = ExpandMatrix(mx.uid_dist, mx.node_to_uid)]
    /\ pc' = "mx_done"
    /\ UNCHANGED <<depot, dw, dw2, endDom, frontend, inst, sol, result, hard, relaxed, ui, post>>

NextMatrix == DeduplicateAndBranch \/ ChunkPairStep \/ ExpandToNodes

SpecMatrix == InitMatrix /\ [][NextMatrix]_vars

-----------------------------------------------------------------------------
(* Claims about the matrix builder, checked under SpecMatrix *)

\* the first node (from 1) with the coordinate of node i
FirstNodeAt(i) == CHOOSE k \in 1 .. i : mx.coords[k] = mx.coords[i] /\
                      \A h \in 1 .. k - 1 : mx.coords[h] # mx.coords[i]

\* C20: unique ids follow the first-seen order of the coordinates, two nodes
\* share an id iff their coordinates are equal, both returned matrices are
\* len(coords) x len(coords) with out[i][j] = unique_matrix[uid(i)][uid(j)];
\* nodes at one coordinate have identical rows and columns and the entry
\* between them is the provider's value from that coordinate to itself.
Thm_C20_DeduplicateAndExpand ==
    pc = "mx_done" =>
        LET n == Len(mx.coords)
            uid == mx.node_to_uid
            T == mx.time_matrix_min
            D == mx.dist_matrix_m
        IN  /\ Len(uid) = n
            /\ \A i, j \in 1 .. n : uid[i] = uid[j] <=> mx.coords[i] = mx.coords[j]
            /\ \A i \in 1 .. n :
                  uid[i] = Cardinality({mx.coords[k] : k \in 1 .. FirstNodeAt(i) - 1})
            /\ Len(T) = n /\ Len(D) = n
            /\ \A i \in 1 .. n : Len(T[i]) = n /\ Len(D[i]) = n
            /\ \A i, j \in 1 .. n :
                  /\ T[i][j] = mx.uid_time[uid[i] + 1][uid[j] + 1]
                  /\ D[i][j] = mx.uid_dist[uid[i] + 1][uid[j] + 1]
            /\ \A i, j \in 1 .. n : mx.coords[i] = mx.coords[j] =>
                  /\ T[i] = T[j] /\ D[i] = D[j]
                  /\ \A k \in 1 .. n : T[k][i] = T[k][j] /\ D[k][i] = D[k][j]
                  /\ T[i][j] = DurationToMinutes(
                                   ProviderCell(mx.prov, mx.coords[i], mx.coords[i]).dur)
                  /\ D[i][j] = DistanceToMetres(
                                   ProviderCell(mx.prov, mx.coords[i], mx.coords[i]).dist)

\* the chunked path with a repeated coordinate that is not adjacent: 27 nodes,
\* 26 unique coordinates, four requests
Wit_C20_ChunkedWithRepeat ==
    /\ pc = "mx_done"
    /\ Len(mx.coords) = 27
    /\ Len(mx.unique_coords) = 26
    /\ Len(mx.requests) = 4
    /\ mx.node_to_uid[27] = 0
    /\ mx.prov = "selfloop"

\* the table one unchunked request over all unique coordinates would give,
\* converted as the single-request path converts it
UnchunkedTime(u, w) ==
    DurationToMinutes(ProviderCell(mx.prov, mx.unique_coords[u], mx.unique_coords[w]).dur)
UnchunkedDist(u, w) ==
    DistanceToMetres(ProviderCell(mx.prov, mx.unique_coords[u], mx.unique_coords[w]).dist)

\* C21: with more unique coordinates than one chunk, the matrix assembled
\* from the chunk-pair requests equals cell for cell the matrix of one
\* unchunked request over all unique coordinates.
Thm_C21_ChunkedEqualsUnchunked ==
    (pc \in {"mx_filled", "mx_done"} /\ Len(mx.unique_coords) > OsrmChunkSize) =>
        LET m == Len(mx.unique_coords)
        IN  /\ Len(mx.uid_time) = m /\ Len(mx.uid_dist) = m
            /\ \A u, w \in 1 .. m :
                  /\ mx.uid_time[u][w] = UnchunkedTime(u, w)
                  /\ mx.uid_dist[u][w] = UnchunkedDist(u, w)

\* all four blocks of a 27 x 27 unique matrix carry non-zero provider values,
\* the diagonal included
Wit_C21_AllBlocksWritten ==
    /\ pc = "mx_filled"
    /\ Len(mx.unique_coords) = 27
    /\ mx.prov = "selfloop"
    /\ Len(mx.requests) = 4
    /\ mx.uid_time[1][1] > 0 /\ mx.uid_time[1][27] > 0
    /\ mx.uid_time[27][1] > 0 /\ mx.uid_time[27][27] > 0
    /\ mx.uid_dist[26][2] # mx.uid_dist[2][2]

\* ceil(m / chunk size)
NumChunks(m) == (m + OsrmChunkSize - 1) \div OsrmChunkSize
\* the coordinates of the unique ids of chunk c (from 1)
ChunkCoords(c) ==
    {mx.unique_coords[u + 1] :
        u \in (c - 1) * OsrmChunkSize ..
              Min(c * OsrmChunkSize, Len(mx.unique_coords)) - 1}
\* the coordinates request r names as sources, as destinations
RequestSources(r) == {r.sub_coords[r.src_local[k] + 1] : k \in 1 .. Len(r.src_local)}
RequestDestinations(r) == {r.sub_coords[r.dst_local[k] + 1] : k \in 1 .. Len(r.dst_local)}

\* C22: in the chunked path one request is issued per ordered (source chunk,
\* destination chunk) pair, ceil(m/25)^2 requests for m unique coordinates
\* (4 for 30), and no request carries more than 2 x 25 coordinates.
Thm_C22_OneRequestPerChunkPair ==
    (Len(mx.unique_coords) > OsrmChunkSize) =>
        LET m == Len(mx.unique_coords)
            nc == NumChunks(m)
            reqs == mx.requests
        IN  /\ \A k \in 1 .. Len(reqs) : Len(reqs[k].sub_coords) <= 2 * OsrmChunkSize
            /\ pc = "mx_chunking" => Len(reqs) = mx.pos - 1 /\ Len(reqs) < nc * nc
            /\ pc \in {"mx_filled", "mx_done"} =>
                  /\ Len(reqs) = nc * nc
                  /\ m = 30 => Len(reqs) = 4
                  /\ \A a, b \in 1 .. nc :
                        Cardinality({k \in 1 .. Len(reqs) :
                            /\ RequestSources(reqs[k]) = ChunkCoords(a)
                            /\ RequestDestinations(reqs[k]) = ChunkCoords(b)}) = 1

\* 51 distinct coordinates: three chunks, nine requests, one of them with
\* all 50 coordinates of two full chunks
Wit_C22_NineRequestsFiftyCoords ==
    /\ pc = "mx_done"
    /\ Len(mx.unique_coords) = 51
    /\ Len(mx.requests) = 9
    /\ \E k \in 1 .. 9 : Len(mx.requests[k].sub_coords) = 50 /\ mx.requests[k].kind = "sub"
    /\ \E k \in 1 .. 9 : mx.requests[k].kind = "full"

\* the chunked path was taken: its pair counter was started
TookChunkPath == mx.pos > 0
\* the single-request path has finished with its one full-table request
OneFullRequest ==
    /\ Len(mx.requests) = 1
    /\ mx.requests[1].kind = "full"
    /\ mx.requests[1].sub_coords = mx.unique_coords

\* C23 as stated: one request below 25 unique coordinates, the chunk-pair
\* path from 25 unique coordinates on.
Orig_C23_SingleRequestBelowThreshold ==
    pc # "mx_input" =>
        /\ Len(mx.unique_coords) < 25 => ~TookChunkPath /\ OneFullRequest
        /\ Len(mx.unique_coords) >= 25 => TookChunkPath

\* C23 (amended): one request for the full unique x unique matrix when there
\* are at most 25 unique coordinates, the chunk-pair path when there are
\* more than 25.
Thm_C23_SingleRequestUpToChunkSize ==
    pc # "mx_input" =>
        /\ Len(mx.unique_coords) <= 25 => ~TookChunkPath /\ OneFullRequest
        /\ Len(mx.unique_coords) > 25 =>
              /\ TookChunkPath
              /\ pc \in {"mx_filled", "mx_done"} => Len(mx.requests) > 1

\* exactly 25 unique coordinates among 26 nodes, served by one request
Wit_C23_TwentyFiveUniqueOneRequest ==
    /\ pc = "mx_done"
    /\ Len(mx.coords) = 26
    /\ Len(mx.unique_coords) = 25
    /\ ~TookChunkPath
    /\ OneFullRequest

-----------------------------------------------------------------------------
(* Specification SpecMatrixAnyOrder: build_matrices_osrm with the passes of
   the chunk-pair loop taken in any order, every pair once *)

MaxPermutedNodes == 27

InitMatrixAnyOrder ==
    /\ pc = "mx_input"
    /\ \E pat \in CoordPatterns, n \in OsrmChunkSize .. MaxPermutedNodes, prov \in Providers :
          mx = [NoMx EXCEPT !.coords = MakeCoords(pat, n), !.prov = prov]
    /\ depot = DefaultDepot
    /\ dw = NoResult
    /\ dw2 = NoResult
    /\ endDom = TimeCumulDomain
    /\ frontend = "none"
    /\ inst = NoInst
    /\ sol = NoSol
    /\ result = NoSolveResult
    /\ hard = "not_run"
    /\ relaxed = "not_run"
    /\ ui = NoUi
    /\ post = NoPost

\* one pass of the loop body for any pair not processed yet
ChunkPairAnyOrder ==
    /\ pc = "mx_chunking"
    /\ LET nc == Len(Chunks(Len(mx.unique_coords)))
       IN  \E p \in (1 .. nc * nc) \ mx.done :
              /\ mx' = ProcessChunkPair(p)
              /\ pc' = IF mx.done \cup {p} = 1 .. nc * nc
                       THEN "mx_filled" ELSE "mx_chunking"
    /\ UNCHANGED <<depot, dw, dw2, endDom, frontend, inst, sol, result, hard, relaxed, ui, post>>

NextMatrixAnyOrder == DeduplicateAndBranch \/ ChunkPairAnyOrder \/ ExpandToNodes

SpecMatrixAnyOrder == InitMatrixAnyOrder /\ [][NextMatrixAnyOrder]_vars

\* the (source, destination) pairs of coordinates request r asks for
RequestPairs(r) == RequestSources(r) \X RequestDestinations(r)
\* the pairs asked for by the requests sent so far
PairsWritten == UNION {RequestPairs(mx.requests[k]) : k \in 1 .. Len(mx.requests)}

\* C24: whatever the order of the chunk pairs, every cell of the unique x
\* unique matrix is written by one pair only: no two requests ask for the
\* same cell, while pairs are outstanding a cell is either still 0 or already
\* final, and when all are processed every cell has been written, so the
\* matrix is the same for every order.
Thm_C24_OrderIndependent ==
    (pc \in {"mx_chunking", "mx_filled", "mx_done"}
        /\ Len(mx.unique_coords) > OsrmChunkSize) =>
        LET m == Len(mx.unique_coords)
            written == PairsWritten
        IN  /\ \A k1, k2 \in 1 .. Len(mx.requests) :
                  k1 < k2 => RequestPairs(mx.requests[k1])
                               \cap RequestPairs(mx.requests[k2]) = {}
            /\ pc # "mx_chunking" => Cardinality(written) = m * m
            /\ \A u, w \in 1 .. m :
                  IF <<mx.unique_coords[u], mx.unique_coords[w]>> \in written
                  THEN /\ mx.uid_time[u][w] = UnchunkedTime(u, w)
                       /\ mx.uid_dist[u][w] = UnchunkedDist(u, w)
                  ELSE mx.uid_time[u][w] = 0 /\ mx.uid_dist[u][w] = 0

\* all four pairs processed in the reverse of the loop's order
Wit_C24_ReverseOrder ==
    /\ pc = "mx_done"
    /\ Len(mx.unique_coords) = 27
    /\ mx.prov = "selfloop"
    /\ Len(mx.requests) = 4
    /\ RequestSources(mx.requests[1]) = ChunkCoords(2)
    /\ RequestDestinations(mx.requests[1]) = ChunkCoords(2)
    /\ RequestSources(mx.requests[2]) = ChunkCoords(2)
    /\ RequestDestinations(mx.requests[2]) = ChunkCoords(1)
    /\ RequestDestinations(mx.requests[4]) = ChunkCoords(1)
    /\ RequestSources(mx.requests[4]) = ChunkCoords(1)

-----------------------------------------------------------------------------
(* matrix.build_matrices_google_routes.  An element of the answer names its
   origin and destination (from 0), a status code, and optionally a duration
   (tenths of seconds, sent as text "12.3s") and a distance in metres. *)

UnreachableTime == 1000000
UnreachableDist == 1000000000

\* int(float(dur[:-1])), int(float(dur or 0)): whole seconds, fraction cut off
GoogleSeconds(dur) == IF dur.null THEN 0 ELSE dur.v \div 10

\* Mutant: a failed element is written like a missing value
GoogleCellValues_ZeroOnError(el) ==
    IF el.code # 0
    THEN [t |-> 0, d |-> 0]
    ELSE [t |-> RoundHalfEven(GoogleSeconds(el.dur), 60),
          d |-> IF el.dist.null THEN 0 ELSE el.dist.v]

\* the two values stored for one element (lines 140-148)
GoogleCellValues(el) ==
    IF el.code # 0
    THEN [t |-> UnreachableTime, d |-> UnreachableDist]
    ELSE [t |-> RoundHalfEven(GoogleSeconds(el.dur), 60),
          d |-> IF el.dist.null THEN 0 ELSE el.dist.v]

\* what the service may say about one pair: a route (89.9 s, 90 s, 150 s),
\* success without values, a failure without and with values, or nothing
ElementKinds == {"ok_899", "ok_900", "ok_1500", "ok_empty", "failed", "failed_values", "omitted"}
MakeElement(kind, oi, di) ==
    [oi |-> oi, di |-> di,
     code |-> IF kind = "failed" THEN 5 ELSE IF kind = "failed_values" THEN 13 ELSE 0,
     dur |-> IF kind = "ok_899" THEN Val(899)
             ELSE IF kind = "ok_900" THEN Val(900)
             ELSE IF kind = "ok_1500" THEN Val(1500)
             ELSE IF kind = "failed_values" THEN Val(600)
             ELSE Null,
     dist |-> IF kind = "ok_899" THEN Val(1499)
              ELSE IF kind = "ok_900" THEN Val(1500)
              ELSE IF kind = "ok_1500" THEN Val(2500)
              ELSE IF kind = "failed_values" THEN Val(1000)
              ELSE Null]

\* the elements of an answer for n nodes, kinds[p] for pair number p (row by
\* row), pairs of kind "omitted" left out
RECURSIVE MakeElements(_, _, _)
MakeElements(kinds, n, p) ==
    IF p > n * n THEN <<>>
    ELSE (IF kinds[p] = "omitted" THEN <<>>
          ELSE <<MakeElement(kinds[p], (p - 1) \div n, (p - 1) % n)>>)
         \o MakeElements(kinds, n, p + 1)

-----------------------------------------------------------------------------
(* Specification SpecGoogle: build_matrices_google_routes on every answer
   built from the element kinds *)

MaxGoogleNodes == 2

InitGoogle ==
    /\ pc = "g_input"
    /\ \E n \in 1 .. MaxGoogleNodes :
          \E kinds \in [1 .. n * n -> ElementKinds] :
              mx = [NoMx EXCEPT !.coords = [i \in 1 .. n |-> i],
                                !.prov = "google",
                                !.elements = MakeElements(kinds, n, 1)]
    /\ depot = DefaultDepot
    /\ dw = NoResult
    /\ dw2 = NoResult
    /\ endDom = TimeCumulDomain
    /\ frontend = "none"
    /\ inst = NoInst
    /\ sol = NoSol
    /\ result = NoSolveResult
    /\ hard = "not_run"
    /\ relaxed = "not_run"
    /\ ui = NoUi
    /\ post = NoPost

\* lines 130-132: the zero-filled matrices
GoogleZeroFill ==
    /\ pc = "g_input"
    /\ LET n == Len(mx.coords)
       IN  mx' = [mx EXCEPT !.time_matrix_min = [i \in 1 .. n |-> [j \in 1 .. n |-> 0]],
                            !.dist_matrix_m = [i \in 1 .. n |-> [j \in 1 .. n |-> 0]],
                            !.pos = 1]
    /\ pc' = "g_elements"
    /\ UNCHANGED <<depot, dw, dw2, endDom, frontend, inst, sol, result, hard, relaxed, ui, post>>

\* one pass of "for el in elements"
GoogleElementStep ==
    /\ pc = "g_elements"
    /\ mx.pos <= Len(mx.elements)
    /\ LET el == mx.elements[mx.pos]
           cell == GoogleCellValues(el)
       IN  mx' = [mx EXCEPT !.time_matrix_min[el.oi + 1][el.di + 1] = cell.t,
                            !.dist_matrix_m[el.oi + 1][el.di + 1] = cell.d,
                            !.pos = @ + 1]
    /\ pc' = "g_elements"
    /\ UNCHANGED <<depot, dw, dw2, endDom, frontend, inst, sol, result, hard, relaxed, ui, post>>

\* the return after the last element
GoogleReturn ==
    /\ pc = "g_elements"
    /\ mx.pos > Len(mx.elements)
    /\ pc' = "g_done"
    /\ UNCHANGED <<mx, depot, dw, dw2, endDom, frontend, inst, sol, result, hard, relaxed, ui, post>>

NextGoogle == GoogleZeroFill \/ GoogleElementStep \/ GoogleReturn

SpecGoogle == InitGoogle /\ [][NextGoogle]_vars

\* the elements that report the pair (i, j), nodes from 1
ElementsFor(i, j) ==
    {k \in 1 .. Len(mx.elements) : mx.elements[k].oi = i - 1 /\ mx.elements[k].di = j - 1}

\* C25: in the matrices the batch provider returns, a pair reported with a
\* non-success status holds time 1,000,000 and distance 1,000,000,000, a
\* pair reported with success holds its reported values (the duration cut to
\* whole seconds and rounded to minutes), and every cell of the n x n result
\* holds an integer.
Thm_C25_GoogleSentinels ==
    pc = "g_done" =>
        LET n == Len(mx.coords)
            T == mx.time_matrix_min
            D == mx.dist_matrix_m
        IN  /\ Len(T) = n /\ Len(D) = n
            /\ \A i, j \in 1 .. n :
                  /\ Len(T[i]) = n /\ Len(D[i]) = n
                  /\ T[i][j] \in Int /\ D[i][j] \in Int
                  /\ \A k \in ElementsFor(i, j) :
                        LET el == mx.elements[k]
                            seconds == IF el.dur.null THEN 0 ELSE el.dur.v \div 10
                        IN  IF el.code # 0
                            THEN T[i][j] = 1000000 /\ D[i][j] = 1000000000
                            ELSE /\ 2 * AbsDiff(60 * T[i][j], seconds) <= 60
                                 /\ D[i][j] = (IF el.dist.null THEN 0 ELSE el.dist.v)

\* one answer with a failed pair, a failed pair that carries values, a
\* routed pair and an unreported pair
Wit_C25_FailedBesideRouted ==
    /\ pc = "g_done"
    /\ Len(mx.coords) = 2
    /\ Len(mx.elements) = 3
    /\ mx.elements[1].code = 5 /\ mx.elements[2].code = 13 /\ mx.elements[3].code = 0
    /\ mx.time_matrix_min[1][1] = 1000000 /\ mx.dist_matrix_m[1][2] = 1000000000
    /\ mx.time_matrix_min[2][1] = 2 /\ mx.dist_matrix_m[2][1] = 1500
    /\ mx.time_matrix_min[2][2] = 0

-----------------------------------------------------------------------------
(* Further claims about build_matrices_osrm, checked under SpecMatrix *)

\* the provider reports no route between nodes i and j (from 1)
NoRouteBetween(i, j) ==
    LET cell == ProviderCell(mx.prov, mx.coords[i], mx.coords[j])
    IN  cell.dur.null \/ cell.dist.null

\* C26 as stated: a pair for which the OSRM provider reports no route holds
\* the unreachable sentinel in the returned matrices (time >= 1,000,000,
\* distance >= 1,000,000,000), on the single-request and the chunked path.
Orig_C26_NullIsSentinel ==
    pc = "mx_done" =>
        \A i, j \in 1 .. Len(mx.coords) :
            NoRouteBetween(i, j) =>
                /\ mx.time_matrix_min[i][j] >= 1000000
                /\ mx.dist_matrix_m[i][j] >= 1000000000

-----------------------------------------------------------------------------
(* debug_checks.check_reachability_quick *)

\* any(arrival_min <= w_end for (w_start, w_end) in depot_windows)
AnyDepotWindowCanAccept(depot_windows, arrival_min) ==
    \E k \in 1 .. Len(depot_windows) : arrival_min <= depot_windows[k][2]

\* the problems of nodes node .. len(node_tws) - 1, at most one per node
RECURSIVE CheckReachabilityQuick(_, _, _, _, _)
CheckReachabilityQuick(node_tws, service_mins, time_matrix_min, depot_windows, node) ==
    IF node > Len(node_tws) - 1 THEN <<>>
    ELSE LET e == node_tws[node + 1][2]
             travel_to == time_matrix_min[1][node + 1]
             travel_back == time_matrix_min[node + 1][1]
             latest_finish == e + service_mins[node + 1]
             arrival_depot == latest_finish + travel_back
             here == IF travel_to >= UnreachableTime
                     THEN <<[node |-> node, kind |-> "to_unroutable"]>>
                     ELSE IF travel_back >= UnreachableTime
                     THEN <<[node |-> node, kind |-> "back_unroutable"]>>
                     ELSE IF ~AnyDepotWindowCanAccept(depot_windows, arrival_depot)
                     THEN <<[node |-> node, kind |-> "return_fits_no_window"]>>
                     ELSE <<>>
         IN  here \o CheckReachabilityQuick(node_tws, service_mins, time_matrix_min,
                                            depot_windows, node + 1)

-----------------------------------------------------------------------------
(* Specification SpecReach: check_reachability_quick on customers with
   point and wide windows, routable and unroutable legs, one and two depot
   windows *)

MaxReachCustomers == 2

ReachWindows == {<<600, 600>>, <<600, 660>>, <<630, 700>>}
ReachTravel == {10, UnreachableTime}
ReachDepotWindows == {<< <<650, 680>> >>, << <<600, 620>>, <<640, 650>> >>}

ReachInsts ==
    UNION {
        {[NoInst EXCEPT
            !.tws = [k \in 1 .. n + 1 |-> IF k = 1 THEN <<>> ELSE tws[k - 1]],
            !.svc = [k \in 1 .. n + 1 |-> IF k = 1 THEN 0 ELSE service],
            !.tm = [x \in 1 .. n + 1 |-> [y \in 1 .. n + 1 |->
                      IF x = y THEN 0
                      ELSE IF x = 1 THEN to[y - 1]
                      ELSE IF y = 1 THEN back[x - 1]
                      ELSE 10]]] :
            tws \in [1 .. n -> ReachWindows], service \in {0, 5},
            to \in [1 .. n -> ReachTravel], back \in [1 .. n -> ReachTravel]} :
        n \in 1 .. MaxReachCustomers}

InitReach ==
    /\ pc = "reach_input"
    /\ inst \in ReachInsts
    /\ \E wins \in ReachDepotWindows : dw = [ok |-> TRUE, err |-> "", wins |-> wins]
    /\ depot = DefaultDepot
    /\ dw2 = NoResult
    /\ endDom = TimeCumulDomain
    /\ frontend = "none"
    /\ sol = NoSol
    /\ result = NoSolveResult
    /\ hard = "not_run"
    /\ relaxed = "not_run"
    /\ ui = NoUi
    /\ post = NoPost
    /\ mx = NoMx

\* check_reachability_quick(node_tws, service_mins, time_matrix_min, depot_windows, labels)
CallCheckReachabilityQuick ==
    /\ pc = "reach_input"
    /\ post' = [post EXCEPT !.probs =
                    CheckReachabilityQuick(inst.tws, inst.svc, inst.tm, dw.wins, 1)]
    /\ pc' = "reach_done"
    /\ UNCHANGED <<depot, dw, dw2, endDom, frontend, inst, sol, result, hard, relaxed, ui, mx>>

NextReach == CallCheckReachabilityQuick

SpecReach == InitReach /\ [][NextReach]_vars

\* some arrival minute t inside the node's window lets the vehicle, after
\* service and the trip back, be admitted by a depot window (waiting for a
\* window to open counts)
SomeRoundTripServes(node) ==
    \E t \in inst.tws[node + 1][1] .. inst.tws[node + 1][2] :
        \E k \in 1 .. Len(dw.wins) :
            t + inst.svc[node + 1] + inst.tm[node + 1][1] <= dw.wins[k][2]

\* C27 as stated: with finite travel both ways a node is reported for its
\* depot return only if no arrival minute inside its window admits a return;
\* a node that some single-node round trip can serve is never reported.
Orig_C27_ReportedOnlyIfNoScenario ==
    pc = "reach_done" =>
        \A k \in 1 .. Len(post.probs) :
            post.probs[k].kind = "return_fits_no_window" =>
                ~SomeRoundTripServes(post.probs[k].node)

-----------------------------------------------------------------------------
(* Further claims about the two solves, checked under Spec *)

\* whether the assignment a is one the routing model of the given mode
\* admits: covering, "Duration" cap, and for every vehicle clocks that meet
\* the mode's customer ranges, the wait ceiling and the end domain
AdmittedBy(a, mode) ==
    /\ a.route \in Routings
    /\ \A v \in 1 .. NumVehicles :
          /\ DurationOk(a.route[v])
          /\ a.time[v] \in (IF a.route[v] = <<>> THEN IdleTimes(endDom, mode)
                            ELSE RouteTimes(a.route[v], endDom, mode))

\* the soft-bound cost of an assignment at 1000 per minute: minutes before
\* the window start plus minutes after the window end, over all customers
RECURSIVE SoftPenalty(_, _)
SoftPenalty(a, node) ==
    IF node >= NLocations THEN 0
    ELSE LET tmin == CumulVar(a, NodeToIndex(node))
         IN  1000 * (Max(0, inst.tws[node + 1][1] - tmin)
                     + Max(0, tmin - inst.tws[node + 1][2]))
             + SoftPenalty(a, node + 1)

\* C28: the relaxed model is a relaxation of the hard model. An assignment
\* the hard solve returns is admitted by the relaxed model at penalty 0, and
\* a relaxed result with an empty violation list is admitted by the hard
\* model: every customer arrival inside its window, covering, wait ceiling,
\* end in the admission domain.
Thm_C28_RelaxedIsRelaxation ==
    /\ hard = "ok" => AdmittedBy(sol, "relaxed") /\ SoftPenalty(sol, 1) = 0
    /\ (relaxed = "ok" /\ result.violations = <<>>) =>
          /\ AdmittedBy(sol, "hard")
          /\ \A c \in Customers :
                /\ inst.tws[c + 1][1] <= CumulVar(sol, NodeToIndex(c))
                /\ CumulVar(sol, NodeToIndex(c)) <= inst.tws[c + 1][2]

\* a relaxed result without violations for two customers on two routes: the
\* hard search had ended without a solution although one exists
Wit_C28_RelaxedWithoutViolations ==
    /\ relaxed = "ok"
    /\ result.violations = <<>>
    /\ Cardinality(Customers) = 2
    /\ Len(result.routes) = 2
    /\ AdmittedBy(sol, "hard")

\* the early_min of node's violation record, 0 when the node has none
EarlyMinOf(node) ==
    IF \E k \in 1 .. Len(result.violations) : result.violations[k].node = node
    THEN (CHOOSE x \in {result.violations[k] : k \in 1 .. Len(result.violations)} :
              x.node = node).early_min
    ELSE 0

\* C29: the wait field of a visit (node, arrival, wait) is
\* max(0, window start - arrival) for a customer and 0 for the depot; so it
\* is 0 for every visit of a hard result, and in a relaxed result it is the
\* early_min of the node's violation record, 0 when the node has none.
Thm_C29_WaitField ==
    (hard = "ok" \/ relaxed = "ok") =>
        \A r \in 1 .. Len(result.routes) : \A k \in 1 .. Len(result.routes[r]) :
            LET step == result.routes[r][k] IN
            /\ step[1] = 0 => step[3] = 0
            /\ step[1] # 0 =>
                  step[3] = (IF inst.tws[step[1] + 1][1] > step[2]
                             THEN inst.tws[step[1] + 1][1] - step[2] ELSE 0)
            /\ hard = "ok" => step[3] = 0
            /\ (relaxed = "ok" /\ step[1] # 0) => step[3] = EarlyMinOf(step[1])

\* a relaxed route that reaches one customer early (wait > 0) and another
\* late (wait 0, late_min > 0)
Wit_C29_EarlyAndLateVisit ==
    /\ relaxed = "ok"
    /\ \E r \in 1 .. Len(result.routes) :
          /\ Len(result.routes[r]) = 4
          /\ \E k \in 2 .. 3 : result.routes[r][k][3] > 0
          /\ \E k \in 2 .. 3 :
                /\ result.routes[r][k][3] = 0
                /\ \E j \in 1 .. Len(result.violations) :
                      /\ result.violations[j].node = result.routes[r][k][1]
                      /\ result.violations[j].late_min > 0

-----------------------------------------------------------------------------
(* Further claims about the post-processing, checked under SpecStats *)

\* every leg of the route is consistent with the matrix: no wait is clamped
NoLegClamped(route) == \A k \in 2 .. Len(route) : LegWait(route, k) >= 0

\* C30: for every route compute_route_totals reports
\* total_time_min = total_drive_min + total_wait_min + total_service_min, and
\* when no leg's wait is clamped this is the elapsed time of the route, the
\* final arrival minus the minute of the first visit.
Thm_C30_TotalTimeIsElapsed ==
    pc \in {"stats_totals", "stats_rows"} =>
        /\ \A r \in 1 .. Len(result.routes) :
              Len(result.routes[r]) >= 2 =>
                  \E i \in 1 .. Len(post.totals) : post.totals[i].route_id = r
        /\ \A i \in 1 .. Len(post.totals) :
              LET t == post.totals[i]
                  route == result.routes[t.route_id]
              IN  /\ t.total_time_min
                        = t.total_drive_min + t.total_wait_min + t.total_service_min
                  /\ NoLegClamped(route) =>
                        t.total_time_min = route[Len(route)][2] - route[1][2]

\* a three-step route without a clamped leg, with service and with waiting,
\* whose 20 minutes of total time are its elapsed time
Wit_C30_ConsistentRouteWithService ==
    /\ pc = "stats_totals"
    /\ Len(result.routes[1]) = 3
    /\ NoLegClamped(result.routes[1])
    /\ post.totals[1].route_id = 1
    /\ post.totals[1].total_service_min > 0
    /\ post.totals[1].total_wait_min > 0
    /\ post.totals[1].total_time_min = 20

====
